---- MODULE Spec2Model ----
(***************************************************************************)
(* Model of the asynchronous job pipeline of vendorflow's API package:     *)
(* the publisher (jobs/publisher.ts), the two job consumers                *)
(* (jobs/invoicePdf.job.ts, jobs/renewalEmail.job.ts), the broker topology *)
(* (config/rabbitmq.ts) and the worker's consumers (worker.ts).            *)
(*                                                                         *)
(* One step of the model is one run-to-completion slice of the Node event  *)
(* loop (the code between two awaits) or one step of the broker.           *)
(***************************************************************************)
EXTENDS Integers, Sequences, FiniteSets, TLC

(***************************************************************************)
(* Bounds of the model.                                                    *)
(***************************************************************************)
\* publishJob calls in one behaviour
MaxCalls == 2
\* messages put on a job queue by something other than publishJob
MaxForeign == 1
\* the sum of maxAttempts over the jobs published in one behaviour
MaxTotalAttempts == 3
MaxScans == 2
MaxPeriodic == 2
MaxRequests == 2
MaxAuthOps == 4
MaxClock == 1

(***************************************************************************)
(* Program constants.                                                      *)
(***************************************************************************)
\* publisher.ts: const maxAttempts = options.maxAttempts || 3
DefaultMaxAttempts == 3
\* rabbitmq.ts: await channel.prefetch(1)
Prefetch == 1

\* rabbitmq.ts QUEUES
INVOICE_PDF_QUEUE == "invoice_pdf_generation"
RENEWAL_EMAIL_QUEUE == "renewal_email"
DEAD_LETTER_QUEUE == "dead_letter_queue"
JobQueues == {INVOICE_PDF_QUEUE, RENEWAL_EMAIL_QUEUE}
QUEUES == JobQueues \cup {DEAD_LETTER_QUEUE}

\* rabbitmq.ts ROUTING_KEYS
RK_INVOICE_PDF == "job.invoice.pdf"
RK_RENEWAL_EMAIL == "job.renewal.email"
RK_DEAD_LETTER == "dead"

\* publisher.ts enum JobType
JT_INVOICE_PDF == "invoice_pdf_generation"
JT_RENEWAL_EMAIL == "renewal_email"
JobType == {JT_INVOICE_PDF, JT_RENEWAL_EMAIL}
\* a string that is no member of the JobType enum
UnknownJobType == "unknown_job"

(***************************************************************************)
(* Processes.  The worker process connects to the broker at start-up; the  *)
(* HTTP API process (index.ts) never calls connectRabbitMQ, so its module  *)
(* variable `channel` is null for its whole life.                          *)
(***************************************************************************)
API == "api"
W1 == "w1"
W2 == "w2"
Workers == {W1, W2}
Procs == Workers \cup {API}

\* the documents of the database the jobs act on
Tenants == {"t1"}
InvoiceIds == {"i1"}
ContractIds == {"c1"}

\* uuidv4(): the n-th identifier drawn
JobIdName == <<"j1", "j2", "j3", "j4", "j5", "j6", "j7", "j8", "j9", "j10", "j11", "j12">>
\* the id of an envelope that another program publishes
ForeignJobId == "f1"
JobIds == {JobIdName[n] : n \in DOMAIN JobIdName} \cup {ForeignJobId}
CallerKeys == {"k1"}
\* renewalEmail.job.ts scheduleRenewalEmails: `renewal-${contract._id}-${today}`
\* for the contracts of the database, on the one UTC day the model covers
DailyKey == [c1 |-> "k1", c2 |-> "k2", c3 |-> "k3"]
\* new mongoose ObjectIds: the _id of the n-th invoice that Invoice.create inserts
NewInvoiceIds == <<"n1", "n2", "n3">>
AllInvoiceIds == InvoiceIds \cup {NewInvoiceIds[n] : n \in DOMAIN NewInvoiceIds}
\* the idempotencyKey a client sends with POST /invoices
ClientKeys == {"ck1"}
\* users.service.ts createInvoice: `invoice-pdf-${invoice._id}`
PdfKey == [n1 |-> "pk1", n2 |-> "pk2", n3 |-> "pk3"]
AllKeys ==
  CallerKeys \cup {DailyKey[c] : c \in DOMAIN DailyKey} \cup ClientKeys \cup
  {PdfKey[i] : i \in DOMAIN PdfKey} \cup JobIds

\* an optional argument: <<>> when the caller leaves it out, <<v>> otherwise
Absent == <<>>
Given(v) == <<v>>
IsGiven(o) == Len(o) = 1
ValueOf(o) == o[1]

(***************************************************************************)
(* publisher.ts: JobMessage, and the message as the broker carries it.     *)
(***************************************************************************)
NoJob ==
  [id |-> "", type |-> "", tenantId |-> "", payload |-> "", idempotencyKey |-> "",
   attempt |-> 0, maxAttempts |-> 0, createdAt |-> 0]

\* JSON.stringify of a JobMessage / Buffer.from: well-formed JSON text
JSONstringify(job) == [json |-> TRUE, value |-> job]
\* bytes that are not JSON
Garbage == [json |-> FALSE, value |-> NoJob]
\* JSON.parse(msg.content.toString()): throws on text that is not JSON
JSONparseThrows(content) == ~content.json
JSONparse(content) == content.value

\* a field that the parsed object does not have
Undefined == "undefined"
\* JSON.parse of a body such as {"id": "x"}: an object without payload
IncompleteJob == [NoJob EXCEPT !.payload = Undefined]
\* const { invoiceId } = payload (const { contractId } = payload) throws a
\* TypeError when payload is undefined
DestructureThrows(job) == job.payload = Undefined

NoHeaders == [xIdempotencyKey |-> "", xTenantId |-> "", xRetryAttempt |-> 0]
NoMsg ==
  [content |-> Garbage, persistent |-> FALSE, messageId |-> "", headers |-> NoHeaders,
   routingKey |-> ""]

\* publisher.ts getRoutingKey
getRoutingKey(jobType) ==
  CASE jobType = JT_INVOICE_PDF -> RK_INVOICE_PDF
    [] jobType = JT_RENEWAL_EMAIL -> RK_RENEWAL_EMAIL
    [] OTHER -> "throw"

\* rabbitmq.ts setupExchangesAndQueues: bindings of the main exchange
BoundQueue(routingKey) ==
  CASE routingKey = RK_INVOICE_PDF -> INVOICE_PDF_QUEUE
    [] routingKey = RK_RENEWAL_EMAIL -> RENEWAL_EMAIL_QUEUE
    [] OTHER -> ""

\* rabbitmq.ts setupExchangesAndQueues: x-dead-letter-exchange of a queue and
\* the binding of the dead letter exchange; the dead letter queue has none
DeadLetterTarget(q) == IF q \in JobQueues THEN DEAD_LETTER_QUEUE ELSE ""

\* JavaScript's a || b on strings and numbers
OrElseStr(a, b) == IF IsGiven(a) /\ ValueOf(a) # "" THEN ValueOf(a) ELSE b

\* a ?? b in place of a || b: only an absent value takes the default
OrElseNumNullish(a, b) == IF IsGiven(a) THEN ValueOf(a) ELSE b

OrElseNum(a, b) == IF IsGiven(a) /\ ValueOf(a) # 0 THEN ValueOf(a) ELSE b

\* a message object whose attempts are counted from zero
BuildMessageFromZero(jobId, jobType, tenantId, payload, keyOpt, maxOpt, now) ==
  [id |-> jobId, type |-> jobType, tenantId |-> tenantId, payload |-> payload,
   idempotencyKey |-> OrElseStr(keyOpt, jobId),
   attempt |-> 0,
   maxAttempts |-> OrElseNum(maxOpt, DefaultMaxAttempts),
   createdAt |-> now]

\* publisher.ts publishJob: the message object
BuildMessage(jobId, jobType, tenantId, payload, keyOpt, maxOpt, now) ==
  [id |-> jobId, type |-> jobType, tenantId |-> tenantId, payload |-> payload,
   idempotencyKey |-> OrElseStr(keyOpt, jobId),
   attempt |-> 1,
   maxAttempts |-> OrElseNum(maxOpt, DefaultMaxAttempts),
   createdAt |-> now]

\* publisher.ts publishJob: the arguments of channel.publish
PublishArgs(message, routingKey) ==
  [content |-> JSONstringify(message), persistent |-> TRUE, messageId |-> message.id,
   headers |-> [xIdempotencyKey |-> message.idempotencyKey,
                xTenantId |-> message.tenantId, xRetryAttempt |-> 0],
   routingKey |-> routingKey]

\* a retry that draws its idempotency key anew, as publishJob does by default
RetryMessageRekeyed(originalMessage) ==
  [originalMessage EXCEPT !.attempt = originalMessage.attempt + 1,
                          !.idempotencyKey = originalMessage.id]

\* publisher.ts republishForRetry: retryMessage
RetryMessage(originalMessage) ==
  [originalMessage EXCEPT !.attempt = originalMessage.attempt + 1]

\* publisher.ts republishForRetry: the arguments of channel.publish
RepublishArgs(originalMessage, routingKey) ==
  [content |-> JSONstringify(RetryMessage(originalMessage)), persistent |-> TRUE,
   messageId |-> originalMessage.id,
   headers |-> [xIdempotencyKey |-> originalMessage.idempotencyKey,
                xTenantId |-> originalMessage.tenantId,
                xRetryAttempt |-> RetryMessage(originalMessage).attempt],
   routingKey |-> routingKey]

(***************************************************************************)
(* The database: the documents the handlers read.                          *)
(***************************************************************************)
\* Tenant.find({ isActive: true }), in the order of the result
ActiveTenants == <<"t1", "t2">>
\* Contract.find({tenantId, status in active/expiring_soon, endDate within 30
\* days}), in the order of the result
ExpiringOf(tenantId) ==
  IF tenantId = "t1" THEN <<"c1", "c2">>
  ELSE IF tenantId = "t2" THEN <<"c3">>
  ELSE <<>>
\* Contract.findOne({_id, tenantId}) finds a document
\* a contract whose endDate lies outside the next 30 days, and a contract
\* within them whose tenant is inactive and has no admin or manager
LapsedContracts == {<<"c4", "t1">>}
OrphanContracts == {<<"c5", "t3">>}
ContractExists(contractId, tenantId) ==
  \/ \E n \in DOMAIN ExpiringOf(tenantId) : ExpiringOf(tenantId)[n] = contractId
  \/ <<contractId, tenantId>> \in LapsedContracts \cup OrphanContracts
\* renewalEmail.job.ts: now <= contract.endDate <= now + 30 days
ExpiringContracts ==
  UNION {{ExpiringOf(ActiveTenants[t])[n] : n \in DOMAIN ExpiringOf(ActiveTenants[t])} :
           t \in DOMAIN ActiveTenants}
\* User.find({tenantId, role in admin/manager, isActive}).select('email name')
Recipients(tenantId) ==
  IF \E t \in DOMAIN ActiveTenants : ActiveTenants[t] = tenantId
  THEN {<<"admin", tenantId>>} ELSE {}
\* renewalEmail.job.ts: the contract passes the test of the renewal window
InRenewalWindow(contractId) ==
  \/ contractId \in ExpiringContracts
  \/ \E c \in OrphanContracts : c[1] = contractId

VARIABLES
  channel,      \* rabbitmq.ts `channel` of each process: "open", "closed" or "null"
  calls,        \* the publishJob calls made so far, in call order
  retries,      \* the republishForRetry calls that await their confirmation
  queue,        \* the broker's queues
  unacked,      \* the delivery each consumer holds unacknowledged
  handler,      \* the job handler running for each consumer
  invoices,     \* Invoice collection: idempotencyKey and pdfUrl of each invoice
  sentEmails,   \* renewalEmail.job.ts `sentEmails` of each worker process
  foreign,      \* messages published to the job queues by other programs
  scan,         \* worker.ts scheduleRenewalEmailJobs of each worker process
  life,         \* worker.ts startWorker: how far each worker process has come
  requests,     \* the createInvoice calls made so far, in call order
  created,      \* the invoices that Invoice.create has inserted, in order
  tokens,       \* RefreshToken collection: the stored refresh token documents
  refreshes,    \* the refreshToken calls made so far, in call order
  auth,         \* clock in whole seconds, documents created, calls made, and
                \* the token strings handed to clients and passed to logout
  published,    \* per job id: attempt and maxAttempts of the envelopes that
                \* reached a job queue, in order
  invoked,      \* per job id: deliveries that entered the handler's try block
  failed,       \* per job id: deliveries whose try block threw
  effects,      \* per idempotency key: side effects completed
  records,      \* per idempotency key: idempotency records written
  acked,        \* per job id: how its last delivery left the try block
  dead,         \* the messages the broker routed to the dead letter queue
  lost,         \* the messages nacked after they had been acked
  escaped       \* consumers out of whose callback an exception escaped

\* Invoice.findOne({_id, tenantId}) finds a document: one that was there from
\* the start or one that createInvoice has inserted
InvoiceExists(invoiceId, tenantId) ==
  \/ invoiceId \in InvoiceIds /\ tenantId \in Tenants
  \/ \E n \in DOMAIN created : created[n].id = invoiceId /\ created[n].tenantId = tenantId

vars ==
  <<channel, calls, retries, queue, unacked, handler, invoices, sentEmails,
    foreign, scan, life, requests, created, tokens, refreshes, auth, published, invoked, failed,
    effects, records, acked, dead, lost, escaped>>

brokerVars == <<queue, unacked>>
dbVars == <<invoices, sentEmails>>
procVars == <<scan, life>>
apiVars == <<requests, created>>
authVars == <<tokens, refreshes, auth>>

\* the users that can log in, and a string that no generateRefreshToken call
\* has signed
AuthUsers == {"u1", "u2"}
ForgedToken == <<"forged", 0>>
NoToken == <<"none", 0>>
NoAuth == [clock |-> 0, docs |-> 0, ops |-> 0, issued |-> {}, revoked |-> {}]
histVars == <<invoked, failed, effects, records, acked, dead, lost, escaped>>

Idle == [pc |-> "idle", job |-> NoJob, pdfUrl |-> 0]
\* startWorker has returned: the consumers are registered and the intervals
\* set.  `periodic` counts the runs of runPeriodicTasks, `brokerFailed` tells
\* that connectRabbitMQ threw, `connectionClosed` that the connection has
\* emitted its close event
Running ==
  [pc |-> "running", brokerFailed |-> FALSE, periodic |-> 0, connectionClosed |-> FALSE]
\* the process has called startWorker and nothing else
Starting == [Running EXCEPT !.pc = "starting"]
\* the positions of startWorker at which channel.consume has registered the
\* consumers
Consuming == {"consuming", "scanning", "running"}
\* no renewal scan has run: `attempted` and `failedAt` are the contracts whose
\* enqueue the latest run has attempted and has seen fail, `readFailed` tells
\* that one of its database reads threw
NoScan ==
  [pc |-> "idle", run |-> 0, ti |-> 0, ci |-> 0, attempted |-> {}, failedAt |-> {},
   readFailed |-> FALSE]
NoInvoiceKey == ""

\* worker.ts startWorker has connected the workers (rabbitmq.ts connectRabbitMQ);
\* index.ts startServer never connects the API process
\* the envelope of a message that the broker has routed to a job queue
Published(args) ==
  [published EXCEPT ![args.content.value.id] =
     Append(@, [attempt |-> args.content.value.attempt,
                maxAttempts |-> args.content.value.maxAttempts])]

Init ==
  /\ channel = [p \in Procs |-> IF p \in Workers THEN "open" ELSE "null"]
  /\ calls = <<>>
  /\ retries = {}
  /\ queue = [q \in QUEUES |-> <<>>]
  /\ unacked = [w \in Workers |-> [q \in QUEUES |-> NoMsg]]
  /\ handler = [w \in Workers |-> [q \in JobQueues |-> Idle]]
  /\ invoices = [i \in AllInvoiceIds |-> [idempotencyKey |-> NoInvoiceKey, pdfUrl |-> 0]]
  /\ sentEmails = [w \in Workers |-> {}]
  /\ foreign = 0
  /\ scan = [w \in Workers |-> NoScan]
  /\ life = [w \in Workers |-> Running]
  /\ requests = <<>>
  /\ created = <<>>
  /\ tokens = {}
  /\ refreshes = <<>>
  /\ auth = NoAuth
  /\ published = [j \in JobIds |-> <<>>]
  /\ invoked = [j \in JobIds |-> 0]
  /\ failed = [j \in JobIds |-> 0]
  /\ effects = [k \in AllKeys |-> 0]
  /\ records = [k \in AllKeys |-> 0]
  /\ acked = [j \in JobIds |-> "none"]
  /\ dead = {}
  /\ lost = {}
  /\ escaped = {}

(***************************************************************************)
(* Broker and channel helpers.                                             *)
(***************************************************************************)
\* deliveries the consumer (w, q) holds unacknowledged
Outstanding(w, q) == IF unacked[w][q] = NoMsg THEN 0 ELSE 1

\* the broker returns the unacknowledged deliveries of a closed channel to
\* the head of their queues
Requeued(w) ==
  [q \in QUEUES |-> IF unacked[w][q] = NoMsg THEN queue[q] ELSE <<unacked[w][q]>> \o queue[q]]

\* amqplib: a closed channel calls back every unconfirmed publish with an error
RejectAwaiting(p) ==
  [c \in DOMAIN calls |->
     IF calls[c].proc = p /\ calls[c].status = "awaiting"
     THEN [calls[c] EXCEPT !.status = "rejected"] ELSE calls[c]]

\* the channel of process w closes: with state "closed" the module variable
\* still holds the closed channel (no listener on the channel resets it),
\* with state "null" the connection's close listener has reset it
ChannelCloses(w, state) ==
  /\ channel' = [channel EXCEPT ![w] = state]
  /\ queue' = Requeued(w)
  /\ unacked' = [unacked EXCEPT ![w] = [q \in QUEUES |-> NoMsg]]
  /\ calls' = RejectAwaiting(w)
  /\ retries' = {r \in retries : r.proc # w}

\* new Date(): the wall clock, which advances from one publishJob call to the next
Now == Len(calls) + 1

RECURSIVE SumOver(_, _)
SumOver(f, S) ==
  IF S = {} THEN 0 ELSE LET x == CHOOSE y \in S : TRUE IN f[x] + SumOver(f, S \ {x})

\* generateInvoicePdf: the URL carries Date.now(), so every generation yields a
\* new URL; 0 stands for no URL
NewPdfUrl == SumOver(effects, AllKeys) + 1

\* uuidv4(): an identifier never drawn before
NextJobId == JobIdName[Cardinality({c \in DOMAIN calls : calls[c].jobId # ""}) + 1]

(***************************************************************************)
(* publisher.ts publishJob                                                 *)
(***************************************************************************)
NewCall(p, jobType, tenantId, payload, keyOpt, maxOpt) ==
  [proc |-> p, jobType |-> jobType, tenantId |-> tenantId, payload |-> payload,
   keyOpt |-> keyOpt, maxOpt |-> maxOpt,
   jobId |-> "", message |-> NoJob, args |-> NoMsg,
   status |-> "threw", confirm |-> "none", returned |-> ""]

\* publishJob up to the point where it awaits the confirmation
PublishJobCall(p, jobType, tenantId, payload, keyOpt, maxOpt) ==
  LET call == NewCall(p, jobType, tenantId, payload, keyOpt, maxOpt)
      jobId == NextJobId
      message == BuildMessage(jobId, jobType, tenantId, payload, keyOpt, maxOpt, Now)
      built == [call EXCEPT !.jobId = jobId, !.message = message]
  IN  IF channel[p] = "null" THEN call
      ELSE IF getRoutingKey(jobType) = "throw" THEN built
      ELSE IF channel[p] = "closed"
           THEN [built EXCEPT !.status = "rejected"]
           ELSE [built EXCEPT !.status = "awaiting",
                              !.args = PublishArgs(message, getRoutingKey(jobType))]

\* the sum of maxAttempts over the messages built so far
RECURSIVE AttemptsBudgeted(_)
AttemptsBudgeted(n) ==
  IF n = 0 THEN 0 ELSE calls[n].message.maxAttempts + AttemptsBudgeted(n - 1)

PublishJob(p, jobType, tenantId, payload, keyOpt, maxOpt) ==
  /\ Len(calls) < MaxCalls
  /\ AttemptsBudgeted(Len(calls)) + OrElseNum(maxOpt, DefaultMaxAttempts) <= MaxTotalAttempts
  /\ calls' = Append(calls, PublishJobCall(p, jobType, tenantId, payload, keyOpt, maxOpt))
  /\ UNCHANGED <<channel, retries, brokerVars, handler, dbVars, foreign, apiVars, authVars, published, procVars, histVars>>

\* the broker takes the published message: it routes it to the bound queue
\* and confirms ("ack"), or refuses it ("nack")
BrokerConfirm(c, verdict) ==
  /\ calls[c].status = "awaiting" /\ calls[c].confirm = "none"
  /\ calls' = [calls EXCEPT ![c].confirm = verdict]
  /\ published' = IF verdict = "ack" THEN Published(calls[c].args) ELSE published
  /\ queue' = IF verdict = "ack"
              THEN [queue EXCEPT ![BoundQueue(calls[c].args.routingKey)] =
                                     Append(@, calls[c].args)]
              ELSE queue
  /\ UNCHANGED <<channel, retries, unacked, handler, dbVars, foreign, apiVars, authVars, procVars, histVars>>

\* a confirmation callback that ignores its error argument
ConfirmResultIgnoringError(call) ==
  [call EXCEPT !.status = "resolved", !.returned = call.jobId]

\* publishJob's confirmation callback: (error) => error ? reject : resolve(jobId)
ConfirmResult(call) ==
  IF call.confirm = "nack"
  THEN [call EXCEPT !.status = "rejected"]
  ELSE [call EXCEPT !.status = "resolved", !.returned = call.jobId]

PublishConfirmed(c) ==
  /\ calls[c].status = "awaiting" /\ calls[c].confirm \in {"ack", "nack"}
  /\ calls' = [calls EXCEPT ![c] = ConfirmResult(calls[c])]
  /\ UNCHANGED <<channel, retries, brokerVars, handler, dbVars, foreign, apiVars, authVars, published, procVars, histVars>>

\* the broker's verdict and the confirmation callback it triggers, as one step
PublishSettled(c, verdict) ==
  /\ calls[c].status = "awaiting" /\ calls[c].confirm = "none"
  /\ calls' = [calls EXCEPT ![c] = ConfirmResult([calls[c] EXCEPT !.confirm = verdict])]
  /\ published' = IF verdict = "ack" THEN Published(calls[c].args) ELSE published
  /\ queue' = IF verdict = "ack"
              THEN [queue EXCEPT ![BoundQueue(calls[c].args.routingKey)] =
                                     Append(@, calls[c].args)]
              ELSE queue
  /\ UNCHANGED <<channel, retries, unacked, handler, dbVars, foreign, apiVars, authVars, procVars, histVars>>

\* the broker sends no confirmation for the publish (it is blocked by a
\* resource alarm, or the confirmation frame is lost); publishJob sets no timer
BrokerWithholds(c) ==
  /\ calls[c].status = "awaiting" /\ calls[c].confirm = "none"
  /\ calls' = [calls EXCEPT ![c].confirm = "withheld"]
  /\ UNCHANGED <<channel, retries, brokerVars, handler, dbVars, foreign, apiVars, authVars, published, procVars, histVars>>

\* the message-id property of the n-th message of another program
ForeignMessageId == <<"foreign1", "foreign2", "foreign3">>

\* another program publishes bytes that are not JSON to a job queue
PublishForeign(q) ==
  /\ foreign < MaxForeign
  /\ foreign' = foreign + 1
  /\ queue' = [queue EXCEPT ![q] =
                 Append(@, [NoMsg EXCEPT !.messageId = ForeignMessageId[foreign + 1]])]
  /\ UNCHANGED <<channel, calls, retries, unacked, handler, dbVars, apiVars, authVars, published, procVars, histVars>>

\* another program publishes JSON that lacks the envelope's payload
PublishIncomplete(q) ==
  /\ foreign < MaxForeign
  /\ foreign' = foreign + 1
  /\ queue' = [queue EXCEPT ![q] =
                 Append(@, [NoMsg EXCEPT !.content = JSONstringify(IncompleteJob),
                                         !.messageId = ForeignMessageId[foreign + 1]])]
  /\ UNCHANGED <<channel, calls, retries, unacked, handler, dbVars, apiVars, authVars, published, procVars, histVars>>

\* consumeQueue(QUEUES.INVOICE_PDF, processInvoicePdfJob) and
\* consumeQueue(QUEUES.RENEWAL_EMAIL, processRenewalEmailJob): the job type a
\* queue is consumed for
QueueJobType(q) == IF q = INVOICE_PDF_QUEUE THEN JT_INVOICE_PDF ELSE JT_RENEWAL_EMAIL

\* another program publishes a complete envelope to a job queue, of a type
\* that is not the type of the queue; publishJob itself derives the routing
\* key from the type and never does so
PublishMistyped(q, jobType, tenantId, payload) ==
  /\ foreign < MaxForeign
  /\ jobType # QueueJobType(q)
  /\ foreign' = foreign + 1
  /\ published' = Published([content |-> JSONstringify(
                     BuildMessage(ForeignJobId, jobType, tenantId, payload, Absent, Absent,
                                  Now))])
  /\ queue' = [queue EXCEPT ![q] =
                 Append(@, PublishArgs(BuildMessage(ForeignJobId, jobType, tenantId,
                                                    payload, Absent, Absent, Now),
                                       IF q = INVOICE_PDF_QUEUE THEN RK_INVOICE_PDF
                                       ELSE RK_RENEWAL_EMAIL))]
  /\ UNCHANGED <<channel, calls, retries, unacked, handler, dbVars, apiVars, authVars, procVars, histVars>>

(***************************************************************************)
(* The job handlers: invoicePdf.job.ts processInvoicePdfJob and            *)
(* renewalEmail.job.ts processRenewalEmailJob.                             *)
(***************************************************************************)
RoutingKeyOf(q) == IF q = INVOICE_PDF_QUEUE THEN RK_INVOICE_PDF ELSE RK_RENEWAL_EMAIL

\* channel.nack(msg, false, false) on a delivery the consumer holds: the
\* broker drops it from the queue and routes it to the queue's dead letter
\* target
NackToDeadLetter(w, q, msg) ==
  /\ queue' = [queue EXCEPT ![DeadLetterTarget(q)] = Append(@, msg)]
  /\ unacked' = [unacked EXCEPT ![w][q] = NoMsg]
  /\ dead' = dead \cup {msg}

\* the handler returns with its delivery settled
Finish(w, q) == handler' = [handler EXCEPT ![w][q] = Idle]

\* channel.ack / channel.nack on a channel that is no longer open throws
\* (amqplib IllegalOperationError); inside the try block that leads to the
\* catch block, whose own ack or nack throws again, and the exception leaves
\* the handler
Escape(w, q) ==
  /\ Finish(w, q)
  /\ escaped' = escaped \cup {<<w, q>>}

\* channel.ack(msg) as the last statement of a path through the try block
AckAndReturn(w, q, kind) ==
  IF channel[w] = "open"
  THEN /\ unacked' = [unacked EXCEPT ![w][q] = NoMsg]
       /\ acked' = [acked EXCEPT ![handler[w][q].job.id] = kind]
       /\ Finish(w, q)
       /\ UNCHANGED <<queue, escaped>>
  ELSE /\ Escape(w, q)
       /\ UNCHANGED <<queue, unacked, acked>>

\* a retry decision that is off by one
ShouldRetryInclusive(job) == job.attempt <= job.maxAttempts

\* the retry decision of the catch block
ShouldRetry(job) == job.attempt < job.maxAttempts

\* the catch block of both handlers, up to the await of republishForRetry
Catch(w, q) ==
  LET job == handler[w][q].job
      msg == unacked[w][q]
  IN  /\ failed' = [failed EXCEPT ![job.id] = @ + 1]
      /\ IF channel[w] # "open"
         THEN /\ Escape(w, q)
              /\ UNCHANGED <<queue, unacked, retries, dead>>
         ELSE IF ShouldRetry(job)
         THEN \* channel.ack(msg); await republishForRetry(job, routingKey)
              /\ unacked' = [unacked EXCEPT ![w][q] = NoMsg]
              /\ retries' = retries \cup
                   {[proc |-> w, queue |-> q, original |-> job, delivery |-> msg,
                     args |-> RepublishArgs(job, RoutingKeyOf(q)), confirm |-> "none"]}
              /\ Finish(w, q)
              /\ UNCHANGED <<queue, dead, escaped>>
         ELSE \* channel.nack(msg, false, false)
              /\ NackToDeadLetter(w, q, msg)
              /\ Finish(w, q)
              /\ UNCHANGED <<retries, escaped>>

\* a consumer callback is called with the next message of its queue
CanDeliver(w, q) ==
  /\ life[w].pc \in Consuming
  /\ channel[w] = "open"
  /\ Outstanding(w, q) < Prefetch
  /\ queue[q] # <<>>

\* both handlers, from the call to the first await
Receive(w, q, skipKeys) ==
  LET msg == Head(queue[q])
      job == JSONparse(msg.content)
  IN  /\ CanDeliver(w, q)
      /\ handler[w][q].pc = "idle"
      /\ IF JSONparseThrows(msg.content)
         THEN \* channel.nack(msg, false, false); return
              /\ queue' = [queue EXCEPT ![q] = Tail(@),
                                        ![DeadLetterTarget(q)] = Append(@, msg)]
              /\ dead' = dead \cup {msg}
              /\ UNCHANGED <<unacked, handler, invoked, acked, escaped>>
         ELSE IF DestructureThrows(job)
         THEN \* const { invoiceId } = payload throws outside every try block:
              \* the handler's promise rejects with the delivery unsettled
              /\ queue' = [queue EXCEPT ![q] = Tail(@)]
              /\ unacked' = [unacked EXCEPT ![w][q] = msg]
              /\ escaped' = escaped \cup {<<w, q>>}
              /\ UNCHANGED <<handler, invoked, acked, dead>>
         ELSE /\ invoked' = [invoked EXCEPT ![job.id] = @ + 1]
              /\ queue' = [queue EXCEPT ![q] = Tail(@)]
              /\ UNCHANGED <<dead, escaped>>
              /\ IF job.idempotencyKey \in skipKeys
                 THEN \* already processed: channel.ack(msg); return
                      /\ acked' = [acked EXCEPT ![job.id] = "skipped"]
                      /\ UNCHANGED <<unacked, handler>>
                 ELSE /\ unacked' = [unacked EXCEPT ![w][q] = msg]
                      /\ handler' = [handler EXCEPT ![w][q] =
                                       [pc |-> "lookup", job |-> job, pdfUrl |-> 0]]
                      /\ acked' = acked
      /\ UNCHANGED <<channel, calls, retries, dbVars, foreign, apiVars, authVars, published, procVars, failed, effects,
                     records, lost>>

\* processInvoicePdfJob reads its idempotency record from the database, after
\* an await
NeverSkip == {}

DeliverInvoicePdf(w) == Receive(w, INVOICE_PDF_QUEUE, NeverSkip)

\* processInvoicePdfJob: Invoice.findOne({_id, tenantId, idempotencyKey,
\* pdfUrl: {$exists: true, $ne: null}})
ExistingInvoice(job) ==
  /\ InvoiceExists(job.payload, job.tenantId)
  /\ invoices[job.payload].idempotencyKey = job.idempotencyKey
  /\ invoices[job.payload].pdfUrl # 0

\* processInvoicePdfJob: the idempotency check, the invoice and vendor reads
LookupInvoice(w) ==
  LET q == INVOICE_PDF_QUEUE
      job == handler[w][q].job
  IN  /\ handler[w][q].pc = "lookup"
      /\ IF ExistingInvoice(job)
         THEN AckAndReturn(w, q, "skipped")
         ELSE IF ~InvoiceExists(job.payload, job.tenantId)
         THEN AckAndReturn(w, q, "noop")
         ELSE /\ handler' = [handler EXCEPT ![w][q].pc = "effect"]
              /\ UNCHANGED <<queue, unacked, acked, escaped>>
      /\ UNCHANGED <<channel, calls, retries, dbVars, foreign, apiVars, authVars, published, procVars, invoked, failed,
                     effects, records, dead, lost>>

\* processInvoicePdfJob: generateInvoicePdf resolves with the URL of the PDF
GeneratePdf(w) ==
  LET q == INVOICE_PDF_QUEUE
      job == handler[w][q].job
  IN  /\ handler[w][q].pc = "effect"
      /\ handler' = [handler EXCEPT ![w][q].pc = "record", ![w][q].pdfUrl = NewPdfUrl]
      /\ effects' = [effects EXCEPT ![job.idempotencyKey] = @ + 1]
      /\ UNCHANGED <<channel, calls, retries, brokerVars, dbVars, foreign, apiVars, authVars, published, procVars, invoked,
                     failed, records, acked, dead, lost, escaped>>

\* an update that records the job id in place of the idempotency key
UpdatedInvoicesByJobId(job, pdfUrl) ==
  [invoices EXCEPT ![job.payload] = [idempotencyKey |-> job.id, pdfUrl |-> pdfUrl]]

\* processInvoicePdfJob: Invoice.findByIdAndUpdate(invoiceId, {pdfUrl, idempotencyKey})
UpdatedInvoices(job, pdfUrl) ==
  [invoices EXCEPT ![job.payload] =
     [idempotencyKey |-> job.idempotencyKey, pdfUrl |-> pdfUrl]]

UpdateInvoice(w) ==
  LET q == INVOICE_PDF_QUEUE
      job == handler[w][q].job
  IN  /\ handler[w][q].pc = "record"
      /\ invoices' = UpdatedInvoices(job, handler[w][q].pdfUrl)
      /\ records' = [records EXCEPT ![job.idempotencyKey] = @ + 1]
      /\ handler' = [handler EXCEPT ![w][q].pc = "ack"]
      /\ UNCHANGED <<channel, calls, retries, brokerVars, sentEmails, foreign, apiVars, authVars, published, procVars,
                     invoked, failed, effects, acked, dead, lost, escaped>>

\* processInvoicePdfJob: channel.ack(msg) after the update
AckInvoicePdf(w) ==
  /\ handler[w][INVOICE_PDF_QUEUE].pc = "ack"
  /\ AckAndReturn(w, INVOICE_PDF_QUEUE, "success")
  /\ UNCHANGED <<channel, calls, retries, dbVars, foreign, apiVars, authVars, published, procVars, invoked, failed,
                 effects, records, dead, lost>>

\* processRenewalEmailJob checks sentEmails.has(idempotencyKey) before its
\* first await
DeliverRenewalEmail(w) ==
  \* if (sentEmails.has(idempotencyKey)) { channel.ack(msg); return; }
  Receive(w, RENEWAL_EMAIL_QUEUE, sentEmails[w])

\* processRenewalEmailJob: the contract, window, vendor and recipient reads
LookupContract(w) ==
  LET q == RENEWAL_EMAIL_QUEUE
      job == handler[w][q].job
  IN  /\ handler[w][q].pc = "lookup"
      /\ IF \/ ~ContractExists(job.payload, job.tenantId)
            \/ ~InRenewalWindow(job.payload)
            \/ Recipients(job.tenantId) = {}
         THEN AckAndReturn(w, q, "noop")
         ELSE /\ handler' = [handler EXCEPT ![w][q].pc = "effect"]
              /\ UNCHANGED <<queue, unacked, acked, escaped>>
      /\ UNCHANGED <<channel, calls, retries, dbVars, foreign, apiVars, authVars, published, procVars, invoked, failed,
                     effects, records, dead, lost>>

\* processRenewalEmailJob: sendRenewalEmail resolves; sentEmails.set and
\* channel.ack follow without an await
SendRenewalEmail(w) ==
  LET q == RENEWAL_EMAIL_QUEUE
      job == handler[w][q].job
  IN  /\ handler[w][q].pc = "effect"
      /\ effects' = [effects EXCEPT ![job.idempotencyKey] = @ + 1]
      /\ sentEmails' = [sentEmails EXCEPT ![w] = @ \cup {job.idempotencyKey}]
      /\ records' = [records EXCEPT ![job.idempotencyKey] = @ + 1]
      /\ AckAndReturn(w, q, "success")
      /\ UNCHANGED <<channel, calls, retries, invoices, foreign, apiVars, authVars, published, procVars, invoked, failed,
                     dead, lost>>

\* an awaited promise of the try block rejects (a database read or write, the
\* PDF generation or the mail dispatch fails)
CallbackFails(w, q) ==
  /\ handler[w][q].pc \in {"lookup", "effect", "record"}
  /\ Catch(w, q)
  /\ UNCHANGED <<channel, calls, dbVars, foreign, apiVars, authVars, published, procVars, invoked, effects, records,
                 acked, lost>>

(***************************************************************************)
(* publisher.ts republishForRetry, from its await on.                      *)
(***************************************************************************)
\* the broker takes the republished message
RetryBrokerConfirm(r, verdict) ==
  /\ r \in retries /\ r.confirm = "none"
  /\ retries' = (retries \ {r}) \cup {[r EXCEPT !.confirm = verdict]}
  /\ published' = IF verdict = "ack" THEN Published(r.args) ELSE published
  /\ queue' = IF verdict = "ack"
              THEN [queue EXCEPT ![BoundQueue(r.args.routingKey)] = Append(@, r.args)]
              ELSE queue
  /\ UNCHANGED <<channel, calls, unacked, handler, dbVars, foreign, apiVars, authVars, procVars, histVars>>

\* the confirmation callback resolves republishForRetry and the handler returns
RepublishResolved(r) ==
  /\ r \in retries /\ r.confirm = "ack"
  /\ retries' = retries \ {r}
  /\ UNCHANGED <<channel, calls, brokerVars, handler, dbVars, foreign, apiVars, authVars, published, procVars, histVars>>

\* the confirmation callback rejects republishForRetry; the handler's inner
\* catch calls channel.nack(msg, false, false) for the delivery it has already
\* acked: the broker knows no such delivery, dead-letters nothing and closes
\* the channel with a protocol error (PRECONDITION_FAILED, unknown delivery tag)
RepublishRejected(r) ==
  /\ r \in retries /\ r.confirm = "nack"
  /\ lost' = lost \cup {r.delivery}
  /\ ChannelCloses(r.proc, "closed")
  /\ UNCHANGED <<handler, dbVars, foreign, apiVars, authVars, published, procVars, invoked, failed, effects, records,
                 acked, dead, escaped>>

(***************************************************************************)
(* worker.ts startQueueConsumers: the consumer of the dead letter queue.   *)
(***************************************************************************)
\* the callback parses the message, logs it and acks it; JSON.parse is not
\* guarded, so on bytes that are not JSON the callback throws before the ack.
\* What amqplib does with an exception of a consumer callback is not fixed by
\* this code: the delivery stays unacknowledged, and the connection either
\* stays up ("unhandled") or is torn down ("connectionClosed"), which runs
\* rabbitmq.ts's close listener
ThrowOutcomes == {"unhandled", "connectionClosed"}

\* a monitor that hands the dead letter back to the queue it came from
MonitorRequeues ==
  [queue EXCEPT ![DEAD_LETTER_QUEUE] = Tail(@),
                ![BoundQueue(Head(queue[DEAD_LETTER_QUEUE]).routingKey)] =
                   Append(@, Head(queue[DEAD_LETTER_QUEUE]))]

\* logger.error('Job moved to DLQ:', ...); channel.ack(msg): the queues after
\* the monitor has handled the head of the dead letter queue
MonitorAcks == [queue EXCEPT ![DEAD_LETTER_QUEUE] = Tail(@)]

MonitorDeadLetters(w) ==
  LET q == DEAD_LETTER_QUEUE
      msg == Head(queue[q])
  IN  /\ CanDeliver(w, q)
      /\ IF ~JSONparseThrows(msg.content)
         THEN /\ queue' = MonitorAcks
              /\ UNCHANGED <<channel, unacked, calls, retries, escaped>>
         ELSE /\ escaped' = escaped \cup {<<w, q>>}
              /\ \E outcome \in ThrowOutcomes :
                   IF outcome = "unhandled"
                   THEN /\ queue' = [queue EXCEPT ![q] = Tail(@)]
                        /\ unacked' = [unacked EXCEPT ![w][q] = msg]
                        /\ UNCHANGED <<channel, calls, retries>>
                   ELSE ChannelCloses(w, "null")
      /\ UNCHANGED <<handler, dbVars, foreign, apiVars, authVars, published, procVars, invoked, failed, effects, records,
                     acked, dead, lost>>

(***************************************************************************)
(* worker.ts scheduleRenewalEmailJobs and renewalEmail.job.ts              *)
(* scheduleRenewalEmails: the renewal scan.  startWorker runs it once and  *)
(* then every RENEWAL_CHECK_INTERVAL_MS (one hour); each run is one chain  *)
(* of awaits, and each action below is one link of the chain.              *)
(***************************************************************************)
\* the scan runs started so far, over all worker processes
ScanRuns == scan[W1].run + scan[W2].run

\* the two for loops: the position that follows contract ci of tenant ti
NextPosition(s) ==
  IF s.ci < Len(ExpiringOf(ActiveTenants[s.ti])) THEN [s EXCEPT !.ci = @ + 1]
  ELSE IF s.ti < Len(ActiveTenants) THEN [s EXCEPT !.pc = "tenant", !.ti = @ + 1, !.ci = 0]
  ELSE [s EXCEPT !.pc = "idle", !.ti = 0, !.ci = 0]

\* the catch block of scheduleRenewalEmailJobs, which ends the run
ScanAborted(s) == [s EXCEPT !.pc = "idle", !.ti = 0, !.ci = 0]

\* a loop over the contracts without its own try/catch: the rejection of
\* publishRenewalEmailJob reaches the catch block of scheduleRenewalEmailJobs
AfterEnqueueUncaught(s, contractId, enqueued) ==
  LET t == [s EXCEPT !.attempted = @ \cup {contractId},
                     !.failedAt = IF enqueued THEN @ ELSE @ \cup {contractId}]
  IN  IF enqueued THEN NextPosition(t) ELSE ScanAborted(t)

\* the body of the loop over the contracts: try { await
\* publishRenewalEmailJob(...); scheduledCount++ } catch { logger.error }
AfterEnqueue(s, contractId, enqueued) ==
  LET t == [s EXCEPT !.attempted = @ \cup {contractId},
                     !.failedAt = IF enqueued THEN @ ELSE @ \cup {contractId}]
  IN  NextPosition(t)

\* scheduleRenewalEmailJobs is called: Tenant.find({ isActive: true })
ScanStart(w, found) ==
  /\ \/ life[w].pc = "running"
     \/ life[w].pc = "scanning" /\ scan[w].run = 0
  /\ scan[w].pc = "idle"
  /\ ScanRuns < MaxScans
  /\ scan' = [scan EXCEPT ![w] =
                IF found
                THEN [NoScan EXCEPT !.pc = "tenant", !.run = scan[w].run + 1, !.ti = 1]
                ELSE [NoScan EXCEPT !.run = scan[w].run + 1, !.readFailed = TRUE]]
  /\ UNCHANGED <<channel, calls, retries, brokerVars, handler, dbVars, foreign, apiVars, authVars, published, life,
                 histVars>>

\* scheduleRenewalEmails(tenantId) up to its loop: Contract.find and the
\* import of the publisher, neither inside a try block of its own
ScanTenant(w, found) ==
  LET s == scan[w]
  IN  /\ s.pc = "tenant"
      /\ scan' = [scan EXCEPT ![w] =
                    IF ~found THEN ScanAborted([s EXCEPT !.readFailed = TRUE])
                    ELSE IF ExpiringOf(ActiveTenants[s.ti]) = <<>> THEN NextPosition(s)
                    ELSE [s EXCEPT !.pc = "contract", !.ci = 1]]
      /\ UNCHANGED <<channel, calls, retries, brokerVars, handler, dbVars, foreign, apiVars, authVars, published, life,
                     histVars>>

\* one pass through the loop over the contracts: publishRenewalEmailJob(tenantId,
\* contractId, idempotencyKey) with the broker's verdict on the publish; with
\* the verdict "withheld" the promise never settles and the run stays here
ScanEnqueue(w, verdict) ==
  LET s == scan[w]
      tenantId == ActiveTenants[s.ti]
      contractId == ExpiringOf(tenantId)[s.ci]
      call == PublishJobCall(w, JT_RENEWAL_EMAIL, tenantId, contractId,
                             Given(DailyKey[contractId]), Absent)
      settled == IF call.status # "awaiting" THEN call
                 ELSE IF verdict = "withheld" THEN [call EXCEPT !.confirm = verdict]
                 ELSE ConfirmResult([call EXCEPT !.confirm = verdict])
  IN  /\ s.pc = "contract"
      /\ calls' = Append(calls, settled)
      /\ published' = IF settled.status = "resolved" THEN Published(call.args) ELSE published
      /\ queue' = IF settled.status = "resolved"
                  THEN [queue EXCEPT ![BoundQueue(call.args.routingKey)] =
                                         Append(@, call.args)]
                  ELSE queue
      /\ scan' = [scan EXCEPT ![w] =
                    IF settled.status = "awaiting"
                    THEN [s EXCEPT !.pc = "awaiting", !.attempted = @ \cup {contractId}]
                    ELSE AfterEnqueue(s, contractId, settled.status = "resolved")]
      /\ UNCHANGED <<channel, retries, unacked, handler, dbVars, foreign, apiVars, authVars, life, histVars>>

Scanner(w) ==
  \/ \E found \in BOOLEAN : ScanStart(w, found)
  \/ \E found \in BOOLEAN : ScanTenant(w, found)
  \/ \E verdict \in {"ack", "nack", "withheld"} : ScanEnqueue(w, verdict)

(***************************************************************************)
(* worker.ts startWorker: the start of a worker process.                   *)
(***************************************************************************)
\* a catch block in startQueueConsumers that logs the error of
\* connectRabbitMQ and returns
ConnectFailureSwallowed(l) == [l EXCEPT !.pc = "consuming", !.brokerFailed = TRUE]

\* connectRabbitMQ throws: its catch block rethrows, the catch block of
\* startQueueConsumers rethrows, the catch block of startWorker calls
\* process.exit(1)
ConnectFailure(l) == [l EXCEPT !.pc = "exited1", !.brokerFailed = TRUE]

\* await connectDatabase()
ConnectDatabase(w, connected) ==
  /\ life[w].pc = "starting"
  /\ life' = [life EXCEPT ![w].pc = IF connected THEN "connecting" ELSE "exited1"]
  /\ UNCHANGED <<channel, calls, retries, brokerVars, handler, dbVars, foreign, apiVars, authVars, published, scan,
                 histVars>>

\* await startQueueConsumers(): connectRabbitMQ and the three channel.consume
\* calls.  The broker is "unreachable" (amqp.connect rejects, `channel` stays
\* null), or connectRabbitMQ throws after it has set `channel`
\* ("setupFailed": createConfirmChannel has resolved, prefetch or
\* setupExchangesAndQueues rejects), or all of it succeeds.  A process that
\* exits leaves no channel behind
StartQueueConsumers(w, outcome) ==
  /\ life[w].pc = "connecting"
  /\ IF outcome = "connected"
     THEN /\ channel' = [channel EXCEPT ![w] = "open"]
          /\ life' = [life EXCEPT ![w].pc = "consuming"]
     ELSE /\ life' = [life EXCEPT ![w] = ConnectFailure(@)]
          /\ channel' = [channel EXCEPT ![w] =
                           IF life'[w].pc = "exited1" THEN "null"
                           ELSE IF outcome = "setupFailed" THEN "open" ELSE "null"]
  /\ UNCHANGED <<calls, retries, brokerVars, handler, dbVars, foreign, apiVars, authVars, published, scan, histVars>>

\* runPeriodicTasks: its whole body is inside try/catch, so it always
\* returns.  startWorker awaits it once and then runs it on an interval
RunPeriodicTasks(w) ==
  /\ life[w].pc \in {"consuming", "running"}
  /\ life[w].periodic < MaxPeriodic
  /\ life' = [life EXCEPT ![w].periodic = @ + 1,
                          ![w].pc = IF @ = "consuming" THEN "scanning" ELSE @]
  /\ UNCHANGED <<channel, calls, retries, brokerVars, handler, dbVars, foreign, apiVars, authVars, published, scan,
                 histVars>>

\* the awaited first scheduleRenewalEmailJobs has returned: startWorker sets
\* the intervals and the process handlers, and returns
WorkerReady(w) ==
  /\ life[w].pc = "scanning"
  /\ scan[w].run >= 1 /\ scan[w].pc = "idle"
  /\ life' = [life EXCEPT ![w].pc = "running"]
  /\ UNCHANGED <<channel, calls, retries, brokerVars, handler, dbVars, foreign, apiVars, authVars, published, scan,
                 histVars>>

StartWorker(w) ==
  \/ \E connected \in BOOLEAN : ConnectDatabase(w, connected)
  \/ \E outcome \in {"connected", "unreachable", "setupFailed"} :
       StartQueueConsumers(w, outcome)
  \/ RunPeriodicTasks(w)
  \/ WorkerReady(w)

(***************************************************************************)
(* users.service.ts InvoicesService.createInvoice, called by the invoices  *)
(* controller.  Each action is one stretch between two awaits.             *)
(***************************************************************************)
\* the invoice documents of the collection
StoredInvoices == InvoiceIds \cup {created[n].id : n \in DOMAIN created}

\* Invoice.findOne({ idempotencyKey }): the documents that carry the key
InvoicesWithKey(key) == {i \in StoredInvoices : invoices[i].idempotencyKey = key}

NewRequest(p, tenantId, keyOpt) ==
  [proc |-> p, tenantId |-> tenantId, keyOpt |-> keyOpt, pc |-> "insert",
   invoice |-> "", result |-> "", enqueue |-> "none"]

\* a catch block that passes the error of publishInvoicePdfJob on to the caller
EnqueueFailureThrown(req, status) ==
  [req EXCEPT !.pc = "done", !.enqueue = status,
              !.result = IF status = "resolved" THEN "created" ELSE "error"]

\* try { await publishInvoicePdfJob(...) } catch { logger.warn }, and the
\* return of the invoice
EnqueueSettled(req, status) ==
  [req EXCEPT !.pc = "done", !.enqueue = status, !.result = "created"]

\* the call, up to the result of Invoice.findOne({ idempotencyKey }); with a
\* document found it returns getInvoiceById(tenantId, existing._id), which
\* throws NotFoundError for a document of another tenant
CreateInvoice(p, tenantId, keyOpt) ==
  LET req == NewRequest(p, tenantId, keyOpt)
      found == IF IsGiven(keyOpt) /\ ValueOf(keyOpt) # ""
               THEN InvoicesWithKey(ValueOf(keyOpt)) ELSE {}
  IN  /\ Len(requests) < MaxRequests
      /\ requests' = Append(requests,
           IF found = {} THEN req
           ELSE LET i == CHOOSE x \in found : TRUE
                IN  IF InvoiceExists(i, tenantId)
                    THEN [req EXCEPT !.pc = "done", !.invoice = i, !.result = "existing"]
                    ELSE [req EXCEPT !.pc = "done", !.result = "error"])
      /\ UNCHANGED <<channel, calls, retries, brokerVars, handler, dbVars, foreign, created,
                     authVars, published, procVars, histVars>>

\* the vendor and contract reads, generateInvoiceNumber and Invoice.create.
\* The unique index on idempotencyKey makes the insert fail when a stored
\* document carries the key
InsertInvoice(r, valid) ==
  LET req == requests[r]
      key == IF IsGiven(req.keyOpt) THEN ValueOf(req.keyOpt) ELSE NoInvoiceKey
      id == NewInvoiceIds[Len(created) + 1]
  IN  /\ req.pc = "insert"
      /\ IF ~valid \/ (key # NoInvoiceKey /\ InvoicesWithKey(key) # {})
         THEN /\ requests' = [requests EXCEPT ![r].pc = "done", ![r].result = "error"]
              /\ UNCHANGED <<created, invoices>>
         ELSE /\ created' = Append(created, [id |-> id, tenantId |-> req.tenantId,
                                             clientKey |-> key])
              /\ invoices' = [invoices EXCEPT ![id] =
                                [idempotencyKey |-> key, pdfUrl |-> 0]]
              /\ requests' = [requests EXCEPT ![r].pc = "enqueue", ![r].invoice = id]
      /\ UNCHANGED <<channel, calls, retries, brokerVars, handler, sentEmails, foreign,
                     authVars, published, procVars, histVars>>

\* publishInvoicePdfJob(tenantId, invoice._id, `invoice-pdf-${invoice._id}`)
\* with the broker's verdict on the publish; with the verdict "withheld" the
\* promise never settles and the call stays here
EnqueuePdfJob(r, verdict) ==
  LET req == requests[r]
      call == PublishJobCall(req.proc, JT_INVOICE_PDF, req.tenantId, req.invoice,
                             Given(PdfKey[req.invoice]), Absent)
      settled == IF call.status # "awaiting" THEN call
                 ELSE IF verdict = "withheld" THEN [call EXCEPT !.confirm = verdict]
                 ELSE ConfirmResult([call EXCEPT !.confirm = verdict])
  IN  /\ req.pc = "enqueue"
      /\ calls' = Append(calls, settled)
      /\ published' = IF settled.status = "resolved" THEN Published(call.args) ELSE published
      /\ queue' = IF settled.status = "resolved"
                  THEN [queue EXCEPT ![BoundQueue(call.args.routingKey)] =
                                         Append(@, call.args)]
                  ELSE queue
      /\ requests' = [requests EXCEPT ![r] =
                        IF settled.status = "awaiting"
                        THEN [req EXCEPT !.pc = "awaiting", !.enqueue = "pending"]
                        ELSE EnqueueSettled(req, settled.status)]
      /\ UNCHANGED <<channel, retries, unacked, handler, dbVars, foreign, created, procVars,
                     authVars, histVars>>

(***************************************************************************)
(* The worker process is killed.                                           *)
(***************************************************************************)
\* the process dies without running any handler of its own: the broker sees
\* the connection drop and returns the unacknowledged deliveries to their
\* queues; the handler executions and the publishes that had not reached the
\* broker die with the process
WorkerCrash(w) ==
  /\ life[w].pc \in Consuming
  /\ life' = [life EXCEPT ![w].pc = "crashed"]
  /\ channel' = [channel EXCEPT ![w] = "null"]
  /\ queue' = Requeued(w)
  /\ unacked' = [unacked EXCEPT ![w] = [q \in QUEUES |-> NoMsg]]
  /\ calls' = RejectAwaiting(w)
  /\ retries' = {r \in retries : r.proc # w \/ r.confirm # "none"}
  /\ handler' = [handler EXCEPT ![w] = [q \in JobQueues |-> Idle]]
  /\ UNCHANGED <<dbVars, foreign, apiVars, authVars, published, scan, histVars>>

(***************************************************************************)
(* The next-state relation.                                                *)
(***************************************************************************)
\* the payload of a job type: {invoiceId} or {contractId}
Payloads(jobType) == IF jobType = JT_INVOICE_PDF THEN InvoiceIds ELSE ContractIds

\* the options the callers of publishJob pass
KeyOptions == {Absent, Given("k1")}
MaxAttemptsOptions == {Absent, Given(1), Given(2)}

Publisher(P) ==
  \E p \in P, jobType \in JobType, tenantId \in Tenants,
     keyOpt \in KeyOptions, maxOpt \in MaxAttemptsOptions :
    \E payload \in Payloads(jobType) :
      PublishJob(p, jobType, tenantId, payload, keyOpt, maxOpt)

Broker ==
  \/ \E c \in DOMAIN calls, verdict \in {"ack", "nack"} : PublishSettled(c, verdict)
  \/ \E r \in retries, verdict \in {"ack", "nack"} : RetryBrokerConfirm(r, verdict)

Worker(w) ==
  \/ DeliverInvoicePdf(w)
  \/ LookupInvoice(w)
  \/ GeneratePdf(w)
  \/ UpdateInvoice(w)
  \/ AckInvoicePdf(w)
  \/ DeliverRenewalEmail(w)
  \/ LookupContract(w)
  \/ SendRenewalEmail(w)
  \/ \E q \in JobQueues : CallbackFails(w, q)
  \/ MonitorDeadLetters(w)

Confirmations ==
  \/ \E r \in retries : RepublishResolved(r)
  \/ \E r \in retries : RepublishRejected(r)

\* one worker process
Next ==
  \/ Publisher({W1})
  \/ Broker
  \/ Worker(W1)
  \/ Confirmations

Spec == Init /\ [][Next]_vars

(***************************************************************************)
(* The publisher alone, called from the API process and from the worker    *)
(* with every shape of argument, against a broker that confirms, refuses   *)
(* or stays silent.                                                        *)
(***************************************************************************)
WideKeyOptions == {Absent, Given(""), Given("k1")}
WideMaxAttemptsOptions == {Absent, Given(0), Given(1), Given(2)}

AnyPublishJob ==
  \E p \in {API, W1}, jobType \in JobType \cup {UnknownJobType}, tenantId \in Tenants,
     keyOpt \in WideKeyOptions, maxOpt \in WideMaxAttemptsOptions :
    \E payload \in Payloads(jobType) :
      PublishJob(p, jobType, tenantId, payload, keyOpt, maxOpt)

NextPublish ==
  \/ AnyPublishJob
  \/ \E c \in DOMAIN calls, verdict \in {"ack", "nack"} : BrokerConfirm(c, verdict)
  \/ \E c \in DOMAIN calls : BrokerWithholds(c)
  \/ \E c \in DOMAIN calls : PublishConfirmed(c)

SpecPublish == Init /\ [][NextPublish]_vars

(***************************************************************************)
(* One worker whose job queues also receive messages that are not JSON.    *)
(***************************************************************************)
PoisonPublisher ==
  \E jobType \in JobType, tenantId \in Tenants, maxOpt \in {Given(1), Given(2)} :
    \E payload \in Payloads(jobType) :
      PublishJob(W1, jobType, tenantId, payload, Absent, maxOpt)

NextPoison ==
  \/ PoisonPublisher
  \/ \E q \in JobQueues : PublishForeign(q)
  \/ \E q \in JobQueues : PublishIncomplete(q)
  \/ Broker
  \/ Worker(W1)
  \/ Confirmations

SpecPoison == Init /\ [][NextPoison]_vars

(***************************************************************************)
(* Two worker processes on the same queues.  Each runs                     *)
(* scheduleRenewalEmails, which publishes the renewal job of a contract    *)
(* under the key of the contract and the day; invoice jobs take the        *)
(* default key.                                                            *)
(***************************************************************************)
ScaleOutPublisher ==
  \E p \in Workers, jobType \in JobType, tenantId \in Tenants,
     maxOpt \in {Given(1), Given(2)} :
    \E payload \in Payloads(jobType) :
      PublishJob(p, jobType, tenantId, payload,
                 IF jobType = JT_RENEWAL_EMAIL THEN Given("k1") ELSE Absent, maxOpt)

NextScaleOut ==
  \/ ScaleOutPublisher
  \/ Broker
  \/ Worker(W1)
  \/ Worker(W2)
  \/ Confirmations

SpecScaleOut == Init /\ [][NextScaleOut]_vars

(***************************************************************************)
(* Two worker processes and callers that may publish the same job twice    *)
(* under one key (a duplicate submission).                                 *)
(***************************************************************************)
NextDuplicates ==
  \/ Publisher({W1})
  \/ Broker
  \/ Worker(W1)
  \/ Worker(W2)
  \/ Confirmations

SpecDuplicates == Init /\ [][NextDuplicates]_vars

(***************************************************************************)
(* The renewal scan alone, run by both worker processes, against database  *)
(* reads that may throw and a broker that confirms, refuses or stays       *)
(* silent.                                                                 *)
(***************************************************************************)
NextScan ==
  \/ Scanner(W1)
  \/ Scanner(W2)

SpecScan == Init /\ [][NextScan]_vars

(***************************************************************************)
(* The renewal scan together with the consumers of the renewal email       *)
(* queue, in two worker processes: each process runs the scan and each     *)
(* consumes the queue the scans fill.  The domain callback never throws    *)
(* here, so every job is delivered once.                                   *)
(***************************************************************************)
RenewalConsumer(w) ==
  \/ DeliverRenewalEmail(w)
  \/ LookupContract(w)
  \/ SendRenewalEmail(w)

NextRenewals ==
  \/ Scanner(W1)
  \/ Scanner(W2)
  \/ RenewalConsumer(W1)
  \/ RenewalConsumer(W2)

SpecRenewals == Init /\ [][NextRenewals]_vars

(***************************************************************************)
(* A worker process that starts while another one is running: the running  *)
(* process enqueues jobs, so that messages wait in the queues whatever the *)
(* starting process does.  The specification follows startWorker until it  *)
(* returns; only the starting process consumes, and the domain callback    *)
(* never throws.                                                           *)
(***************************************************************************)
InitStartup ==
  /\ channel = [p \in Procs |-> IF p = W2 THEN "open" ELSE "null"]
  /\ calls = <<>>
  /\ retries = {}
  /\ queue = [q \in QUEUES |-> <<>>]
  /\ unacked = [w \in Workers |-> [q \in QUEUES |-> NoMsg]]
  /\ handler = [w \in Workers |-> [q \in JobQueues |-> Idle]]
  /\ invoices = [i \in AllInvoiceIds |-> [idempotencyKey |-> NoInvoiceKey, pdfUrl |-> 0]]
  /\ sentEmails = [w \in Workers |-> {}]
  /\ foreign = 0
  /\ scan = [w \in Workers |-> NoScan]
  /\ life = [w \in Workers |-> IF w = W1 THEN Starting ELSE Running]
  /\ requests = <<>>
  /\ created = <<>>
  /\ tokens = {}
  /\ refreshes = <<>>
  /\ auth = NoAuth
  /\ published = [j \in JobIds |-> <<>>]
  /\ invoked = [j \in JobIds |-> 0]
  /\ failed = [j \in JobIds |-> 0]
  /\ effects = [k \in AllKeys |-> 0]
  /\ records = [k \in AllKeys |-> 0]
  /\ acked = [j \in JobIds |-> "none"]
  /\ dead = {}
  /\ lost = {}
  /\ escaped = {}

\* the running process enqueues invoice PDF jobs
StartupPublisher ==
  \E tenantId \in Tenants, invoiceId \in InvoiceIds :
    PublishJob(W2, JT_INVOICE_PDF, tenantId, invoiceId, Absent, Given(1))

NextStartup ==
  \/ StartWorker(W1)
  \/ life[W1].pc = "scanning" /\ Scanner(W1)
  \/ StartupPublisher
  \/ \E c \in DOMAIN calls, verdict \in {"ack", "nack"} : PublishSettled(c, verdict)
  \/ DeliverInvoicePdf(W1)
  \/ LookupInvoice(W1)
  \/ GeneratePdf(W1)
  \/ UpdateInvoice(W1)
  \/ AckInvoicePdf(W1)
  \/ RenewalConsumer(W1)

SpecStartup == InitStartup /\ [][NextStartup]_vars

(***************************************************************************)
(* One worker process that consumes envelopes whose type is unknown or is  *)
(* the type of the other queue.                                            *)
(***************************************************************************)
NextMistyped ==
  \/ \E q \in JobQueues, jobType \in JobType \cup {UnknownJobType}, tenantId \in Tenants,
        payload \in InvoiceIds \cup ContractIds :
       PublishMistyped(q, jobType, tenantId, payload)
  \/ Worker(W1)
  \/ \E r \in retries, verdict \in {"ack", "nack"} : RetryBrokerConfirm(r, verdict)
  \/ Confirmations

SpecMistyped == Init /\ [][NextMistyped]_vars

(***************************************************************************)
(* createInvoice and the consumer of the PDF jobs it enqueues.  index.ts   *)
(* never calls connectRabbitMQ, so in the API process the enqueue always   *)
(* throws; the service enqueues when it runs in a process that holds a     *)
(* channel, for which the worker process stands.  The domain callback      *)
(* never throws here.                                                      *)
(***************************************************************************)
ClientKeyOptions == {Absent} \cup {Given(k) : k \in ClientKeys}

InvoiceConsumer(w) ==
  \/ DeliverInvoicePdf(w)
  \/ LookupInvoice(w)
  \/ GeneratePdf(w)
  \/ UpdateInvoice(w)
  \/ AckInvoicePdf(w)

NextInvoices ==
  \/ \E p \in {API, W1}, tenantId \in Tenants, keyOpt \in ClientKeyOptions :
       CreateInvoice(p, tenantId, keyOpt)
  \/ \E r \in DOMAIN requests, valid \in BOOLEAN : InsertInvoice(r, valid)
  \/ \E r \in DOMAIN requests, verdict \in {"ack", "nack", "withheld"} :
       EnqueuePdfJob(r, verdict)
  \/ InvoiceConsumer(W1)

SpecInvoices == Init /\ [][NextInvoices]_vars

(***************************************************************************)
(* One worker process that may be killed at any moment.                    *)
(***************************************************************************)
NextCrash ==
  \/ Publisher({W1})
  \/ Broker
  \/ Worker(W1)
  \/ Confirmations
  \/ WorkerCrash(W1)

SpecCrash == Init /\ [][NextCrash]_vars

(***************************************************************************)
(* Vocabulary of the properties.                                           *)
(***************************************************************************)
Range(seq) == {seq[n] : n \in DOMAIN seq}

\* the job messages the broker holds, queued or delivered and unacknowledged
Held(queues) ==
  ((UNION {Range(queue[q]) : q \in queues})
     \cup {unacked[w][q] : w \in Workers, q \in queues}) \ {NoMsg}

\* the job of a well-formed message
JobOf(msg) == JSONparse(msg.content)
WellFormed(msgs) == {m \in msgs : ~JSONparseThrows(m.content)}

\* the publishJob calls that returned a job id
Returned == {c \in DOMAIN calls : calls[c].returned # ""}

\* job j is still on its way: on a job queue, with a handler, or being republished
InFlight(j) ==
  \/ \E m \in WellFormed(Held(JobQueues)) : JobOf(m).id = j
  \/ \E w \in Workers, q \in JobQueues : handler[w][q].job.id = j
  \/ \E r \in retries : r.original.id = j

\* job j was routed to the dead letter queue
DeadLettered(j) == \E m \in WellFormed(dead) : JobOf(m).id = j

\* the idempotency ledger holds a record for key k
HasRecord(k) ==
  \/ \E i \in InvoiceIds : invoices[i].idempotencyKey = k /\ invoices[i].pdfUrl # 0
  \/ \E w \in Workers : k \in sentEmails[w]

(***************************************************************************)
(* C1  Retry bound.  A job published with maxAttempts = M >= 1 whose       *)
(* callback fails on every delivery is attempted exactly M times and is    *)
(* then in the dead letter queue with attempt = M: once such a job has     *)
(* left the job queues, it was attempted M times and was dead-lettered     *)
(* with attempt M, and it is never attempted more than M times.            *)
(***************************************************************************)
C1_RetryBound ==
  \A c \in Returned :
    LET j == calls[c].jobId
        M == calls[c].message.maxAttempts
    IN  /\ invoked[j] <= M
        /\ (invoked[j] >= 1 /\ failed[j] = invoked[j] /\ ~InFlight(j))
             => /\ invoked[j] = M
                /\ \E m \in WellFormed(dead) : JobOf(m).id = j /\ JobOf(m).attempt = M

(***************************************************************************)
(* C3  At-least-once delivery.  A job for which publishJob returned an id  *)
(* does not disappear: at every moment it is still on its way, or it has   *)
(* reached a terminal state (acked as success or skipped, or               *)
(* dead-lettered), and it reaches a terminal state only after its callback *)
(* was invoked.                                                            *)
(***************************************************************************)
Terminal(j) == acked[j] # "none" \/ DeadLettered(j)

C3_NoJobDisappears ==
  \A c \in Returned :
    LET j == calls[c].jobId
    IN  /\ Terminal(j) \/ InFlight(j)
        /\ Terminal(j) => invoked[j] >= 1

(***************************************************************************)
(* C5  Retry preserves identity.  Every message republishForRetry          *)
(* publishes carries the id, idempotencyKey, type, tenantId, payload,      *)
(* maxAttempts and createdAt of the message it retries and that message's  *)
(* attempt plus one, its headers repeat the key and the tenant of its      *)
(* body, and so every job message on a job queue agrees with the message   *)
(* publishJob built for its id in everything but the attempt.              *)
(***************************************************************************)
SameButAttempt(a, b) == [a EXCEPT !.attempt = 0] = [b EXCEPT !.attempt = 0]

C5_RetryPreservesIdentity ==
  /\ \A r \in retries :
       LET sent == JobOf(r.args)
       IN  /\ SameButAttempt(sent, r.original)
           /\ sent.attempt = r.original.attempt + 1
           /\ r.args.headers.xIdempotencyKey = sent.idempotencyKey
           /\ r.args.headers.xTenantId = sent.tenantId
  /\ \A m \in WellFormed(Held(QUEUES)) :
       /\ \E c \in DOMAIN calls :
            calls[c].jobId = JobOf(m).id /\ SameButAttempt(JobOf(m), calls[c].message)
       /\ m.headers.xIdempotencyKey = JobOf(m).idempotencyKey
       /\ m.headers.xTenantId = JobOf(m).tenantId

\* a retry of a job published with a caller's key is on its way
C5_Witness ==
  \E r \in retries :
    /\ r.confirm = "ack"
    /\ r.original.idempotencyKey \in CallerKeys
    /\ JobOf(r.args).attempt = 2

(***************************************************************************)
(* C6  Fail-then-succeed.  When a delivery of a job with maxAttempts = M   *)
(* is acked as a success, the job's callback had failed on k < M           *)
(* deliveries and was invoked exactly k + 1 times, the job is not in the   *)
(* dead letter queue, and at that ack the ledger holds the record of the   *)
(* job's key.                                                              *)
(***************************************************************************)
Succeeded(j) == acked[j] = "success"

C6_Counts ==
  \A c \in DOMAIN calls :
    LET j == calls[c].jobId
    IN  (j # "" /\ Succeeded(j)) =>
          /\ failed[j] < calls[c].message.maxAttempts
          /\ invoked[j] = failed[j] + 1
          /\ ~DeadLettered(j)

C6_RecordAtAck ==
  \A c \in DOMAIN calls :
    LET j == calls[c].jobId
    IN  (j # "" /\ ~Succeeded(j) /\ Succeeded(j)')
          => HasRecord(calls[c].message.idempotencyKey)'

C7_RecordOnlyAfterEffect ==
  /\ \A k \in AllKeys : HasRecord(k) => effects[k] >= 1
  /\ \A i \in InvoiceIds :
       invoices[i].idempotencyKey # NoInvoiceKey => invoices[i].idempotencyKey \in AllKeys
  /\ \A c \in DOMAIN calls :
       LET j == calls[c].jobId
           k == calls[c].message.idempotencyKey
       IN  (/\ j # "" /\ DeadLettered(j) /\ failed[j] = invoked[j]
            /\ \A d \in DOMAIN calls : calls[d].message.idempotencyKey = k => d = c)
             => ~HasRecord(k)

\* a job with maxAttempts = 2 failed twice, the second time after its side
\* effect, and is dead-lettered without a record
C7_Witness ==
  \E c \in DOMAIN calls :
    LET j == calls[c].jobId
        k == calls[c].message.idempotencyKey
    IN  /\ j # "" /\ DeadLettered(j)
        /\ invoked[j] = 2 /\ failed[j] = 2
        /\ effects[k] >= 1
        /\ ~HasRecord(k)

(***************************************************************************)
(* C2  Idempotent side effects.  Over all the deliveries of messages that  *)
(* share one idempotency key the side effect is produced once: the key's   *)
(* record is written at most once, and the side effect is not run again    *)
(* once the record of the key has been written.                            *)
(***************************************************************************)
C2_ExactlyOnce == \A k \in AllKeys : records[k] <= 1

(***************************************************************************)
(* C4  Poison-message isolation.  A message whose body does not parse      *)
(* never prevents a consumer from processing the messages that follow it:  *)
(* no consumer is left holding it unacknowledged, and no exception escapes *)
(* the dead letter monitor because of it.                                  *)
(***************************************************************************)
C4_PoisonIsolated ==
  \A w \in Workers :
    /\ <<w, DEAD_LETTER_QUEUE>> \notin escaped
    /\ \A q \in QUEUES :
         unacked[w][q] # NoMsg => ~JSONparseThrows(unacked[w][q].content)

(***************************************************************************)
(* C8  publishJob returns a job id only after the broker has positively    *)
(* confirmed the persistent publish of the message built for that id; a    *)
(* call whose publish the broker refused, and a call made without a        *)
(* channel, ends in an error and never returns a job id.                   *)
(***************************************************************************)
C8_Returned ==
  \A c \in DOMAIN calls :
    /\ calls[c].returned # "" =>
         /\ calls[c].confirm = "ack"
         /\ calls[c].status = "resolved"
         /\ calls[c].returned = calls[c].jobId
         /\ calls[c].args.persistent
         /\ JobOf(calls[c].args) = calls[c].message
    /\ calls[c].confirm = "nack" => calls[c].returned = ""
    /\ (calls[c].confirm = "nack" /\ calls[c].status # "awaiting") => calls[c].status = "rejected"
    /\ calls[c].status \in {"threw", "rejected"} => calls[c].returned = ""

C8_NoChannel ==
  Len(calls') = Len(calls) + 1 =>
    LET call == calls'[Len(calls')]
    IN  channel[call.proc] = "null" =>
          call.status = "threw" /\ call.returned = "" /\ call.args = NoMsg

C8_ReturnsOnlyConfirmed == []C8_Returned /\ [][C8_NoChannel]_vars

\* one call returned its job id, another was refused by the broker and failed
C8_Witness ==
  \E c, d \in DOMAIN calls :
    /\ calls[c].returned # "" /\ calls[c].confirm = "ack"
    /\ calls[d].confirm = "nack" /\ calls[d].status = "rejected"

(***************************************************************************)
(* C9  Every call of publishJob returns: a call that awaits its            *)
(* confirmation can always take a step that ends it, the confirmation      *)
(* callback with the broker's verdict or with a timeout error.             *)
(***************************************************************************)
C9_PublishReturns ==
  \A c \in DOMAIN calls :
    calls[c].status = "awaiting" =>
      \/ ENABLED PublishConfirmed(c)
      \/ ENABLED (\E verdict \in {"ack", "nack"} : BrokerConfirm(c, verdict))

(***************************************************************************)
(* C10  The message publishJob builds has attempt = 1 and a fresh id, the  *)
(* id the call returns; its idempotencyKey is the key the caller supplied, *)
(* or the id when the caller supplied none; its maxAttempts is the value   *)
(* the caller supplied, or 3 when the caller supplied none.                *)
(***************************************************************************)
Built == {c \in DOMAIN calls : calls[c].jobId # ""}

C10_Identity(c) ==
  /\ calls[c].message.attempt = 1
  /\ calls[c].message.id = calls[c].jobId
  /\ \A d \in Built : d # c => calls[d].jobId # calls[c].jobId
  /\ calls[c].returned # "" => calls[c].returned = calls[c].message.id
  /\ calls[c].message.type = calls[c].jobType
  /\ calls[c].message.tenantId = calls[c].tenantId
  /\ calls[c].message.payload = calls[c].payload

C10_Envelope ==
  \A c \in Built :
    /\ C10_Identity(c)
    /\ calls[c].message.idempotencyKey =
         IF IsGiven(calls[c].keyOpt) THEN ValueOf(calls[c].keyOpt) ELSE calls[c].message.id
    /\ calls[c].message.maxAttempts =
         IF IsGiven(calls[c].maxOpt) THEN ValueOf(calls[c].maxOpt) ELSE 3

(***************************************************************************)
(* C10, amended: as above, but an empty key counts as no key and a         *)
(* maxAttempts of 0 counts as no value: the idempotencyKey is the          *)
(* caller's key when it is a non-empty string and the id otherwise, and    *)
(* maxAttempts is the caller's value when it is not 0 and 3 otherwise.     *)
(***************************************************************************)
C10_EnvelopeTruthy ==
  \A c \in Built :
    /\ C10_Identity(c)
    /\ calls[c].message.idempotencyKey =
         IF IsGiven(calls[c].keyOpt) /\ ValueOf(calls[c].keyOpt) # ""
         THEN ValueOf(calls[c].keyOpt) ELSE calls[c].message.id
    /\ calls[c].message.maxAttempts =
         IF IsGiven(calls[c].maxOpt) /\ ValueOf(calls[c].maxOpt) # 0
         THEN ValueOf(calls[c].maxOpt) ELSE 3

\* a call with maxAttempts: 0 returned the id of a message with maxAttempts 3,
\* and a call with an empty key built a message keyed by its id
C10_Witness ==
  \E c, d \in Built :
    /\ calls[c].maxOpt = Given(0) /\ calls[c].message.maxAttempts = 3
    /\ calls[c].returned = calls[c].message.id
    /\ calls[d].keyOpt = Given("") /\ calls[d].message.idempotencyKey = calls[d].jobId

(***************************************************************************)
(* C11  Every delivery handed to a job consumer is settled when its        *)
(* handler finishes: no exception leaves a job handler, and a consumer     *)
(* whose handler is not running holds no unacknowledged delivery, for      *)
(* every message body, JSON without the envelope's fields included.        *)
(***************************************************************************)
C11_DeliveriesSettled ==
  \A w \in Workers, q \in JobQueues :
    /\ <<w, q>> \notin escaped
    /\ handler[w][q].pc = "idle" => unacked[w][q] = NoMsg

(***************************************************************************)
(* C12  When the retry republish fails, the delivery being handled is      *)
(* negatively acknowledged without requeue and the job ends in the dead    *)
(* letter queue: every delivery whose republish was rejected is among the  *)
(* messages the broker dead-lettered, and its job is not gone.             *)
(***************************************************************************)
C12_RepublishFailureDeadLetters ==
  \A m \in lost :
    /\ m \in dead
    /\ DeadLettered(JobOf(m).id)

(***************************************************************************)
(* C13  Cross-worker idempotency.  When two worker processes handle        *)
(* messages with the same idempotency key at the same time, the side       *)
(* effect is produced by at most one of them: the two handlers are never   *)
(* both past their side effect for one key and one invoice.                *)
(***************************************************************************)
PastEffect(w, q) == handler[w][q].pc \in {"record", "ack"}

C13_OneProducer ==
  \A q \in JobQueues :
    ~ /\ PastEffect(W1, q) /\ PastEffect(W2, q)
      /\ handler[W1][q].job.idempotencyKey = handler[W2][q].job.idempotencyKey
      /\ handler[W1][q].job.payload = handler[W2][q].job.payload

(***************************************************************************)
(* C14  Record before ack.  In no reachable state has a delivery whose     *)
(* side effect ran been acked as a success while the ledger holds no       *)
(* record for its key.                                                     *)
(***************************************************************************)
C14_RecordBeforeAck ==
  \A c \in DOMAIN calls :
    (calls[c].jobId # "" /\ Succeeded(calls[c].jobId))
      => HasRecord(calls[c].message.idempotencyKey)

(***************************************************************************)
(* C15  An idempotency record is never mutated or removed after creation:  *)
(* no step changes or removes the record of a key that has one, whatever   *)
(* the key of the delivery being handled, so the record still exists with  *)
(* the same result and a later delivery with that key is skipped.          *)
(***************************************************************************)
C15_RecordsKept ==
  /\ \A i \in InvoiceIds :
       (invoices[i].idempotencyKey # NoInvoiceKey /\ invoices[i].pdfUrl # 0)
         => invoices'[i] = invoices[i]
  /\ \A w \in Workers : sentEmails[w] \subseteq sentEmails'[w]

C15_RecordsImmutable == [][C15_RecordsKept]_vars

(***************************************************************************)
(* C16: a failure while enqueuing the job of one contract does not abort   *)
(* the renewal scan.  As long as the database reads of a run succeed, the  *)
(* contracts whose enqueue the run has attempted are exactly the ones its  *)
(* loops have passed, whichever of these enqueues failed; so a run that    *)
(* has ended has attempted every matching contract of every active tenant. *)
(***************************************************************************)
ContractsOf(t) == Range(ExpiringOf(ActiveTenants[t]))

\* the contracts the loops have passed at the position of scan s
Passed(s) ==
  IF s.pc = "idle" THEN ExpiringContracts
  ELSE UNION {ContractsOf(t) : t \in 1..(s.ti - 1)} \cup
       {ExpiringOf(ActiveTenants[s.ti])[n] :
          n \in 1..(IF s.pc = "awaiting" THEN s.ci ELSE s.ci - 1)}

C16_EnqueueFailureDoesNotAbort ==
  \A w \in Workers :
    (scan[w].run >= 1 /\ ~scan[w].readFailed)
      => /\ scan[w].attempted = Passed(scan[w])
         /\ scan[w].failedAt \subseteq scan[w].attempted

\* a run has ended in which the enqueue of the first contract failed and the
\* enqueue of every other contract, of both tenants, was attempted
C16_Witness ==
  /\ scan[W1].pc = "idle" /\ scan[W1].run >= 1 /\ ~scan[W1].readFailed
  /\ "c1" \in scan[W1].failedAt
  /\ scan[W1].attempted = ExpiringContracts
  /\ \E c \in DOMAIN calls : calls[c].payload = "c3" /\ calls[c].status = "resolved"

(***************************************************************************)
(* C17: when the renewal scan runs more than once on one day against the   *)
(* same contracts, every run enqueues each contract under the key          *)
(* renewal-<contractId>-<date> of that day, and over all the deliveries    *)
(* that result at most one renewal notification per contract is sent.      *)
(***************************************************************************)
C17_OneNotificationPerDay ==
  /\ \A c \in DOMAIN calls :
       calls[c].jobId # "" => calls[c].message.idempotencyKey = DailyKey[calls[c].payload]
  /\ \A contractId \in ExpiringContracts : effects[DailyKey[contractId]] <= 1

(***************************************************************************)
(* C18: if connectRabbitMQ fails when the worker starts, the worker        *)
(* terminates with exit code 1 and never consumes a message, never runs    *)
(* the periodic tasks and never runs the renewal scan.                     *)
(***************************************************************************)
\* the starting process has taken a message from a queue: every path of the
\* consumer callbacks leaves one of these marks
HasConsumed(w) ==
  \/ \E j \in JobIds : invoked[j] > 0
  \/ dead # {}
  \/ escaped # {}
  \/ \E q \in QUEUES : unacked[w][q] # NoMsg
  \/ \E q \in JobQueues : handler[w][q] # Idle

C18_BrokerFailureStopsWorker ==
  life[W1].brokerFailed
    => /\ life[W1].pc = "exited1"
       /\ channel[W1] # "open"
       /\ ~HasConsumed(W1)
       /\ life[W1].periodic = 0
       /\ scan[W1] = NoScan

\* connectRabbitMQ has failed and the process has exited while a job waits
\* in the invoice queue
C18_Witness ==
  /\ life[W1].brokerFailed
  /\ life[W1].pc = "exited1"
  /\ queue[INVOICE_PDF_QUEUE] # <<>>

(***************************************************************************)
(* C19: an envelope whose type is not the job type of the queue it is      *)
(* consumed from is dead-lettered on its first delivery, without a call of *)
(* the domain callback and without a retry.                                *)
(***************************************************************************)
\* the envelope of another program waits in queue q with a type that is not
\* the type of q
MistypedIn(q) ==
  \E n \in DOMAIN queue[q] :
    /\ ~JSONparseThrows(queue[q][n].content)
    /\ JobOf(queue[q][n]).id = ForeignJobId
    /\ JobOf(queue[q][n]).attempt = 1
    /\ JobOf(queue[q][n]).type # QueueJobType(q)

C19_MistypedDeadLettered ==
  foreign >= 1 =>
    /\ invoked[ForeignJobId] = 0
    /\ effects[ForeignJobId] = 0
    /\ acked[ForeignJobId] = "none"
    /\ \A r \in retries : r.original.id # ForeignJobId
    /\ (\E q \in JobQueues : MistypedIn(q)) \/ DeadLettered(ForeignJobId)

(***************************************************************************)
(* C20: the dead-letter monitor never reprocesses.  Once a message has     *)
(* reached the dead letter queue, no step puts it into a job queue again,  *)
(* no step delivers its envelope to a job handler (and so to a domain      *)
(* callback) again, and no step republishes it for a retry.                *)
(***************************************************************************)
\* the number of copies of message m in queue q
Copies(q, m) == Cardinality({n \in DOMAIN q : q[n] = m})

C20_DeadStaysDead ==
  \A m \in dead :
    /\ \A q \in JobQueues : Copies(queue'[q], m) <= Copies(queue[q], m)
    /\ ~JSONparseThrows(m.content) =>
         /\ invoked'[JobOf(m).id] = invoked[JobOf(m).id]
         /\ \A w \in Workers, q \in JobQueues :
              handler'[w][q].job.id = JobOf(m).id => handler[w][q].job.id = JobOf(m).id
         /\ \A r \in retries' : r.original.id = JobOf(m).id => r \in retries

C20_MonitorNeverReprocesses == [][C20_DeadStaysDead]_vars

\* the monitor has taken a job's envelope from the dead letter queue and
\* acked it, and the job is nowhere but in the record of the dead letters
C20_Witness ==
  /\ queue[DEAD_LETTER_QUEUE] = <<>>
  /\ \A w \in Workers : unacked[w][DEAD_LETTER_QUEUE] = NoMsg
  /\ \E m \in WellFormed(dead) : JobOf(m).attempt >= 2 /\ ~InFlight(JobOf(m).id)

(***************************************************************************)
(* C21: a dead-letter entry is write-once and terminal.  Every message the *)
(* broker has routed to the dead letter queue is still in that queue, with *)
(* the content it arrived with.                                            *)
(***************************************************************************)
C21_DeadLetterKept ==
  \A m \in dead : Copies(queue[DEAD_LETTER_QUEUE], m) >= 1

(***************************************************************************)
(* C22: createInvoice does not fail because the PDF job could not be       *)
(* enqueued.  For every call whose publishInvoicePdfJob threw or was       *)
(* rejected, the call has returned the invoice it created, the invoice is  *)
(* stored, and nothing of the enqueue is left: no publish awaits a         *)
(* confirmation, no message for the invoice is in a queue and no retry is  *)
(* pending.                                                                *)
(***************************************************************************)
EnqueueFailed(r) == requests[r].enqueue \in {"threw", "rejected"}

C22_EnqueueFailureTolerated ==
  \A r \in DOMAIN requests :
    EnqueueFailed(r) =>
      /\ requests[r].pc = "done"
      /\ requests[r].result = "created"
      /\ requests[r].invoice \in StoredInvoices
      /\ \A c \in DOMAIN calls :
           calls[c].payload = requests[r].invoice => calls[c].status \in {"threw", "rejected"}
      /\ \A m \in WellFormed(Held(QUEUES)) : JobOf(m).payload # requests[r].invoice
      /\ \A x \in retries : x.original.payload # requests[r].invoice

\* an enqueue threw in the API process and another was refused by the broker,
\* and both invoices are stored
C22_Witness ==
  /\ \E r \in DOMAIN requests : requests[r].enqueue = "threw" /\ requests[r].result = "created"
  /\ \E r \in DOMAIN requests : requests[r].enqueue = "rejected" /\ requests[r].result = "created"
  /\ Len(created) = 2

(***************************************************************************)
(* C28: invoice creation is idempotent per client key.  For every          *)
(* idempotencyKey, the createInvoice calls that carry it have inserted at  *)
(* most one invoice, also when the PDF job of the first invoice is         *)
(* processed between the calls.                                            *)
(***************************************************************************)
C28_OneInvoicePerKey ==
  \A k \in ClientKeys :
    Cardinality({n \in DOMAIN created : created[n].clientKey = k}) <= 1

(***************************************************************************)
(* C23: within one worker process each job queue is processed one message  *)
(* at a time.  Per worker and queue at most one handler execution is in    *)
(* progress: one that is between its awaits in the try block, or one that  *)
(* awaits republishForRetry in its catch block.                            *)
(***************************************************************************)
\* the handler executions of consumer (w, q) that have started and not returned
InProgress(w, q) ==
  Cardinality({r \in retries : r.proc = w /\ r.queue = q}) +
  (IF handler[w][q].pc # "idle" THEN 1 ELSE 0)

C23_OneAtATime == \A w \in Workers, q \in JobQueues : InProgress(w, q) <= 1

(***************************************************************************)
(* C24: on the retry path the delivery is acked before the retry copy is   *)
(* published, and only a crash of the worker between the two loses the     *)
(* job.  While no worker process has crashed, a job whose handler has      *)
(* finished is in a job queue, in the dead letter queue or completed.      *)
(***************************************************************************)
Crashed == \E w \in Workers : life[w].pc = "crashed"

\* no handler execution holds job j or awaits the republish of j
HandlerFinished(j) ==
  /\ \A w \in Workers, q \in JobQueues : handler[w][q].job.id # j
  /\ \A r \in retries : r.original.id # j

\* job j is in no job queue, not in the dead letter queue and not completed
Vanished(j) ==
  /\ \A m \in WellFormed(Held(JobQueues)) : JobOf(m).id # j
  /\ ~DeadLettered(j)
  /\ acked[j] = "none"

C24_LostOnlyByCrash ==
  \A c \in Returned :
    (invoked[calls[c].jobId] >= 1 /\ HandlerFinished(calls[c].jobId) /\ ~Crashed)
      => ~Vanished(calls[c].jobId)

(***************************************************************************)
(* AuthService: login, refreshToken and logout.                            *)
(***************************************************************************)
\* jwt.sign(payload, secret, {expiresIn}): the string is a function of the
\* payload (userId, tenantId and role, all fixed per user) and of the issue
\* time in whole seconds
generateRefreshToken(userId, now) == <<userId, now>>

\* jwt.verify accepts the strings signed with the secret; the seven days of
\* refreshExpiresIn lie beyond MaxClock, so no signed token has expired
verifyToken(token) == token[1] \in AuthUsers

\* RefreshToken documents whose token is the given string
StoredWith(token) == {d \in tokens : d.token = token}

\* generateTokens: sign at the current second, then RefreshToken.create,
\* which the unique index on token rejects when the string is stored
TokensCreated(userId) == StoredWith(generateRefreshToken(userId, auth.clock)) = {}

AfterGenerate(userId) ==
  LET token == generateRefreshToken(userId, auth.clock)
  IN  IF TokensCreated(userId)
      THEN [auth EXCEPT !.docs = @ + 1, !.ops = @ + 1, !.issued = @ \cup {token}]
      ELSE [auth EXCEPT !.ops = @ + 1]

StoredAfterGenerate(userId) ==
  IF TokensCreated(userId)
  THEN tokens \cup {[id |-> auth.docs + 1, userId |-> userId,
                     token |-> generateRefreshToken(userId, auth.clock)]}
  ELSE tokens

\* a second of wall clock time passes
Tick ==
  /\ auth.clock < MaxClock
  /\ auth' = [auth EXCEPT !.clock = @ + 1]
  /\ UNCHANGED <<channel, calls, retries, brokerVars, handler, dbVars, foreign, apiVars, published,
                 tokens, refreshes, procVars, histVars>>

\* login of an active user with the right password, which ends in
\* generateTokens
Login(userId) ==
  /\ auth.ops < MaxAuthOps
  /\ tokens' = StoredAfterGenerate(userId)
  /\ auth' = AfterGenerate(userId)
  /\ UNCHANGED <<channel, calls, retries, brokerVars, handler, dbVars, foreign, apiVars, published,
                 refreshes, procVars, histVars>>

\* logout: RefreshToken.deleteOne({ token })
Logout(token) ==
  /\ auth.ops < MaxAuthOps
  /\ tokens' = tokens \ StoredWith(token)
  /\ auth' = [auth EXCEPT !.ops = @ + 1, !.revoked = @ \cup {token}]
  /\ UNCHANGED <<channel, calls, retries, brokerVars, handler, dbVars, foreign, apiVars, published,
                 refreshes, procVars, histVars>>

\* refreshToken, up to the result of RefreshToken.findOne({ token, userId })
RefreshFind(token) ==
  LET found == IF verifyToken(token) THEN StoredWith(token) ELSE {}
      req == [token |-> token, afterLogout |-> token \in auth.revoked,
              pc |-> "done", doc |-> 0, result |-> "unauthorized", issued |-> NoToken]
  IN  /\ auth.ops < MaxAuthOps
      /\ refreshes' = Append(refreshes,
           IF found = {} THEN req
           ELSE [req EXCEPT !.pc = "user", !.result = "none",
                            !.doc = (CHOOSE d \in found : TRUE).id])
      /\ auth' = [auth EXCEPT !.ops = @ + 1]
      /\ UNCHANGED <<channel, calls, retries, brokerVars, handler, dbVars, foreign, apiVars, published,
                     tokens, procVars, histVars>>

\* the result of User.findOne({ _id, tenantId, isActive: true }); without a
\* user the stored document is deleted and the call throws
RefreshUser(r, active) ==
  /\ refreshes[r].pc = "user"
  /\ IF active
     THEN /\ refreshes' = [refreshes EXCEPT ![r].pc = "delete"]
          /\ UNCHANGED tokens
     ELSE /\ refreshes' = [refreshes EXCEPT ![r].pc = "done", ![r].result = "unauthorized"]
          /\ tokens' = {d \in tokens : d.id # refreshes[r].doc}
  /\ UNCHANGED <<channel, calls, retries, brokerVars, handler, dbVars, foreign, apiVars, published,
                 auth, procVars, histVars>>

\* RefreshToken.deleteOne({ _id: storedToken._id }), whose deletedCount the
\* code does not read
RefreshDelete(r) ==
  /\ refreshes[r].pc = "delete"
  /\ tokens' = {d \in tokens : d.id # refreshes[r].doc}
  /\ refreshes' = [refreshes EXCEPT ![r].pc = "generate"]
  /\ UNCHANGED <<channel, calls, retries, brokerVars, handler, dbVars, foreign, apiVars, published,
                 auth, procVars, histVars>>

\* generateTokens for the user of the payload
RefreshGenerate(r) ==
  LET userId == refreshes[r].token[1]
  IN  /\ refreshes[r].pc = "generate"
      /\ tokens' = StoredAfterGenerate(userId)
      /\ auth' = [AfterGenerate(userId) EXCEPT !.ops = auth.ops]
      /\ refreshes' = [refreshes EXCEPT
           ![r].pc = "done",
           ![r].result = IF TokensCreated(userId) THEN "ok" ELSE "error",
           ![r].issued = IF TokensCreated(userId)
                         THEN generateRefreshToken(userId, auth.clock) ELSE NoToken]
      /\ UNCHANGED <<channel, calls, retries, brokerVars, handler, dbVars, foreign, apiVars, published,
                     procVars, histVars>>

\* the strings a client can present: those handed out, and a forged one
Presentable == auth.issued \cup {ForgedToken}

NextAuth ==
  \/ Tick
  \/ \E userId \in AuthUsers : Login(userId)
  \/ \E token \in auth.issued : Logout(token)
  \/ \E token \in Presentable : RefreshFind(token)
  \/ \E r \in DOMAIN refreshes, active \in BOOLEAN : RefreshUser(r, active)
  \/ \E r \in DOMAIN refreshes : RefreshDelete(r)
  \/ \E r \in DOMAIN refreshes : RefreshGenerate(r)

SpecAuth == Init /\ [][NextAuth]_vars

(***************************************************************************)
(* C25: after logout with a refresh token, every refreshToken call that    *)
(* starts later and presents that token is rejected as unauthorized,       *)
(* whatever logins, refreshes and logouts happen in between.               *)
(***************************************************************************)
C25_RevokedStaysRevoked ==
  \A r \in DOMAIN refreshes :
    refreshes[r].afterLogout /\ refreshes[r].pc = "done"
      => refreshes[r].result = "unauthorized"

(***************************************************************************)
(* C30: a stored refresh token is accepted by at most one refreshToken     *)
(* call: of the calls that found the same stored document, concurrent or   *)
(* not, at most one obtains new tokens.                                    *)
(***************************************************************************)
Obtained(doc) ==
  {r \in DOMAIN refreshes : refreshes[r].doc = doc /\ refreshes[r].result = "ok"}

C30_SingleUse == \A doc \in 1..auth.docs : Cardinality(Obtained(doc)) <= 1

(***************************************************************************)
(* C26: for every job id whose envelopes carry maxAttempts >= 1, the       *)
(* attempts of the envelopes that reach a job queue are 1, 2, 3, ... in    *)
(* this order (they start at 1, grow by exactly 1 with each retry and      *)
(* never decrease), and none of them exceeds maxAttempts.                  *)
(***************************************************************************)
C26_AttemptsInOrder ==
  \A j \in JobIds :
    \A n \in DOMAIN published[j] :
      published[j][n].maxAttempts >= 1
        => /\ published[j][n].attempt = n
           /\ published[j][n].attempt <= published[j][n].maxAttempts

\* a job was retried up to its last attempt
C26_Witness ==
  \E j \in JobIds :
    /\ Len(published[j]) >= 2
    /\ published[j][Len(published[j])].attempt = published[j][1].maxAttempts

(***************************************************************************)
(* Jobs whose target cannot be acted on, next to jobs that can.            *)
(***************************************************************************)
\* job type, tenantId and payload of the jobs: an invoice that exists, one
\* that does not, one of another tenant; a contract that is due, one that does
\* not exist, one of another tenant, one outside the window, one without
\* recipients
TargetCases ==
  {<<JT_INVOICE_PDF, "t1", "i1">>, <<JT_INVOICE_PDF, "t1", "i9">>,
   <<JT_INVOICE_PDF, "t2", "i1">>, <<JT_RENEWAL_EMAIL, "t1", "c1">>,
   <<JT_RENEWAL_EMAIL, "t1", "c9">>, <<JT_RENEWAL_EMAIL, "t2", "c1">>,
   <<JT_RENEWAL_EMAIL, "t1", "c4">>, <<JT_RENEWAL_EMAIL, "t3", "c5">>}

TargetPublisher ==
  \E case \in TargetCases, keyOpt \in KeyOptions, maxOpt \in {Given(1), Given(2)} :
    PublishJob(W1, case[1], case[2], case[3], keyOpt, maxOpt)

NextTargets ==
  \/ TargetPublisher
  \/ Broker
  \/ Worker(W1)
  \/ Confirmations

SpecTargets == Init /\ [][NextTargets]_vars

\* the handler of queue q finds nothing to act on for the job
TargetMissing(q, job) ==
  IF q = INVOICE_PDF_QUEUE
  THEN ~InvoiceExists(job.payload, job.tenantId)
  ELSE \/ ~ContractExists(job.payload, job.tenantId)
       \/ ~InRenewalWindow(job.payload)
       \/ Recipients(job.tenantId) = {}

\* the handler of consumer (w, q) leaves its reads, which succeeded, with
\* nothing to act on
LeavesLookup(w, q) ==
  /\ handler[w][q].pc = "lookup"
  /\ TargetMissing(q, handler[w][q].job)
  /\ handler'[w][q].pc = "idle"
  /\ failed' = failed
  /\ life' = life

(***************************************************************************)
(* C27: a job whose target cannot be acted on (a PDF job whose invoice     *)
(* does not exist under the envelope's tenantId; a renewal job whose       *)
(* contract does not exist under the tenant, is outside the renewal        *)
(* window, or has no recipient) is acked, and the handler has no side      *)
(* effect, writes no idempotency record, publishes no retry and            *)
(* dead-letters nothing.                                                   *)
(***************************************************************************)
C27_Step ==
  \A w \in Workers, q \in JobQueues :
    LeavesLookup(w, q)
      => /\ acked'[handler[w][q].job.id] = "noop"
         /\ unacked'[w][q] = NoMsg
         /\ effects' = effects /\ records' = records
         /\ invoices' = invoices /\ sentEmails' = sentEmails
         /\ retries' = retries /\ published' = published
         /\ dead' = dead /\ queue' = queue

C27_MissingTargetAcked == [][C27_Step]_vars

(***************************************************************************)
(* rabbitmq.ts connectRabbitMQ: the listener of the connection's close     *)
(* event.                                                                  *)
(***************************************************************************)
\* a listener that logs the event and leaves the module variables alone
CloseListenerKeeps == "closed"

\* connection.on('close', ...): channel = null; connection = null
CloseListener == "null"

\* the connection of worker w to the broker closes (the broker goes down or
\* the network drops); the process lives on, and the handlers in flight go
\* on with the channel object they hold
ConnectionClosed(w) ==
  /\ life[w].pc \in Consuming
  /\ ~life[w].connectionClosed
  /\ channel[w] # "null"
  /\ life' = [life EXCEPT ![w].connectionClosed = TRUE]
  /\ ChannelCloses(w, CloseListener)
  /\ UNCHANGED <<handler, dbVars, foreign, apiVars, authVars, published, scan, histVars>>

NextClose ==
  \/ Publisher({W1})
  \/ Broker
  \/ Worker(W1)
  \/ Confirmations
  \/ ConnectionClosed(W1)

SpecClose == Init /\ [][NextClose]_vars

\* the publishJob calls that the step adds
NewCalls == {c \in DOMAIN calls' : c \notin DOMAIN calls}

(***************************************************************************)
(* C29: after the close event of the connection the stored channel is null *)
(* and stays null until connectRabbitMQ is called again; while it is null, *)
(* every publishJob and republishForRetry of the process throws and        *)
(* nothing reaches a queue, and no job handler of the process acks or      *)
(* nacks its delivery.                                                     *)
(***************************************************************************)
C29_Step ==
  \A w \in Workers :
    /\ life'[w].connectionClosed => channel'[w] = "null" \/ life[w].pc = "connecting"
    /\ channel[w] = "null" /\ channel'[w] = "null"
         => /\ \A c \in NewCalls :
                 calls'[c].proc = w
                   => /\ calls'[c].status = "threw"
                      /\ calls'[c].message = NoJob
                      /\ queue' = queue /\ published' = published
            /\ {r \in retries' : r.proc = w} \subseteq retries
            /\ handler'[w] # handler[w]
                 => /\ acked' = acked /\ dead' = dead /\ lost' = lost
                    /\ queue' = queue /\ unacked' = unacked

C29_NullChannelLifecycle == [][C29_Step]_vars

\* after the close event a publishJob call has thrown and a handler that was
\* in flight has ended without settling its delivery
C29_Witness ==
  /\ life[W1].connectionClosed /\ channel[W1] = "null"
  /\ \E c \in DOMAIN calls :
       calls[c].proc = W1 /\ calls[c].status = "threw" /\ calls[c].message = NoJob
  /\ \E q \in JobQueues : <<W1, q>> \in escaped
  /\ \E j \in JobIds : invoked[j] >= 1 /\ acked[j] = "none"


====
